---------------------------- MODULE Spec2Model ----------------------------
(***************************************************************************)
(* Camera-model resolution and point projection of src/utils.py            *)
(* (create_intrinsic_matrix, project_points_to_image), together with the   *)
(* point arrays the exporters hand to them.                                *)
(*                                                                         *)
(* Numbers.  The program computes in IEEE binary floating point.  The      *)
(* model keeps the two things that decide its results: every value has a   *)
(* bounded number of significant bits (MantBits instead of 53) and every   *)
(* arithmetic operation rounds its exact result to the nearest such value, *)
(* ties to even.  A value v is held as the integer v * 2^FracBits; the     *)
(* exponent has no upper limit, so nothing overflows.                      *)
(*                                                                         *)
(* Arrays.  A numpy array is a record [shape, data]: shape <<n>> with data *)
(* a sequence of scalars, or shape <<r, c>> with data a sequence of r rows *)
(* of c scalars.  The shape is kept apart from the data because an array   *)
(* of shape (0,) and one of shape (0, 3) hold the same (no) elements and   *)
(* are treated differently by numpy.                                       *)
(***************************************************************************)
EXTENDS Integers, Sequences, FiniteSets, TLC

\* Significant bits of a floating-point value (53 in the program).
MantBits == 3
\* Binary digits after the point of the smallest exponent.
FracBits == 2
\* Longest parameter vector of a camera.
MaxParams == 5
\* Most points in a cloud.
MaxPoints == 2
\* Most images in a dataset.
MaxImages == 11

\* The most error records a session's log is followed for.
MaxLog == 2

\* Threads that call at the same time.
NThreads == 2

\* The most model directories the mapper leaves.
MaxModels == 3

\* The view is dragged at most this many pixels away from the initial one.
MaxDrag == 1

---------------------------------------------------------------------------
(* Floating point *)

RECURSIVE Pow2(_)
Pow2(n) == IF n = 0 THEN 1 ELSE 2 * Pow2(n - 1)

Unit == Pow2(FracBits)

\* The float whose value is the integer n.
Num(n) == n * Unit

Abs(x) == IF x < 0 THEN -x ELSE x

Sign(x) == IF x < 0 THEN -1 ELSE 1

\* The spacing of the floats around a / b (a >= 0, b > 0): the least power of
\* two q with floor((a / b) / q) < 2^MantBits.
RECURSIVE Quantum(_, _, _)
Quantum(a, b, q) ==
    IF a \div (b * q) < Pow2(MantBits) THEN q ELSE Quantum(a, b, 2 * q)

\* a / b (a >= 0, b > 0) rounded to the nearest integer, ties to even.
RoundHalfEven(a, b) ==
    LET f == a \div b
        r == a % b
    IN  IF 2 * r < b THEN f
        ELSE IF 2 * r > b THEN f + 1
        ELSE IF f % 2 = 0 THEN f ELSE f + 1

\* The float nearest to the exact quotient a / b (b # 0).
Round(a, b) ==
    LET n == Abs(a)
        d == Abs(b)
        q == Quantum(n, d, 1)
    IN  Sign(a) * Sign(b) * q * RoundHalfEven(n, d * q)

FAdd(x, y) == Round(x + y, 1)

FMul(x, y) == Round(x * y, Unit)

\* x / y; numpy divides by zero without raising (inf or nan, a warning).
FDiv(x, y) ==
    IF y # 0 THEN Round(x * Unit, y)
    ELSE IF x = 0 THEN "nan" ELSE "inf"

---------------------------------------------------------------------------
(* numpy arrays *)

\* The one element of a singleton set.  An operator that reads an array in
\* a loop binds it first, as in Only({f(m) : m \in {a}}), so that the
\* expression a stands for is evaluated once.
Only(S) == CHOOSE x \in S : TRUE

Array1(xs) == [shape |-> <<Len(xs)>>, data |-> xs]

Array2(rows, c) == [shape |-> <<Len(rows), c>>, data |-> rows]

NDim(a) == Len(a.shape)

\* np.array([]): one dimension, no element.
EmptyArray1 == Array1(<<>>)

\* np.ones((n, 1))
Ones(n) == Array2([i \in 1..n |-> <<Num(1)>>], 1)

\* a.T of a two-dimensional array
Transpose(a) ==
    Only({Array2([j \in 1..m.shape[2] |-> [i \in 1..m.shape[1] |-> m.data[i][j]]],
                 m.shape[1]) : m \in {a}})

\* The sum of xs[i] * ys[i], accumulated from the left.
RECURSIVE DotFrom(_, _, _, _)
DotFrom(xs, ys, i, acc) ==
    IF i > Len(xs) THEN acc
    ELSE DotFrom(xs, ys, i + 1, FAdd(acc, FMul(xs[i], ys[i])))

Dot(xs, ys) == DotFrom(xs, ys, 1, 0)

\* Whether a @ b is defined for two-dimensional a and b.
MatMulOk(a, b) == a.shape[2] = b.shape[1]

\* a @ b
MatMul(a, b) ==
    Only({Array2([i \in 1..m.shape[1] |->
                     [j \in 1..bt.shape[1] |-> Dot(m.data[i], bt.data[j])]],
                 bt.shape[1]) : m \in {a}, bt \in {Transpose(b)}})

\* Whether np.hstack([a, b]) is defined: with a one-dimensional first array
\* the arrays are joined along axis 0, otherwise along axis 1; either way
\* they must have the same number of dimensions, and along axis 1 the same
\* number of rows.
HStackOk(a, b) ==
    /\ NDim(a) = NDim(b)
    /\ NDim(a) = 2 => a.shape[1] = b.shape[1]

\* np.hstack([a, b])
HStack(a, b) ==
    IF NDim(a) = 1 THEN Array1(a.data \o b.data)
    ELSE Only({Array2([i \in 1..m.shape[1] |-> m.data[i] \o n.data[i]],
                      m.shape[2] + n.shape[2]) : m \in {a}, n \in {b}})

\* a[:, k] (k counted from 1)
Column(a, k) ==
    Only({Array1([i \in 1..m.shape[1] |-> m.data[i][k]]) : m \in {a}})

\* a[:, :k]
Columns(a, k) ==
    Only({Array2([i \in 1..m.shape[1] |-> SubSeq(m.data[i], 1, c)], c) :
             m \in {a}, c \in {IF k < a.shape[2] THEN k ELSE a.shape[2]}})

\* The rows of a picked by the boolean sequence mask, in order.
RECURSIVE Pick(_, _, _)
Pick(rows, mask, i) ==
    IF i > Len(rows) THEN <<>>
    ELSE (IF mask[i] THEN <<rows[i]>> ELSE <<>>) \o Pick(rows, mask, i + 1)

\* MaskRows without the filter: every row is kept.
MaskRowsAll(a, mask) == a

\* a[mask]
MaskRows(a, mask) ==
    Only({Array2(Pick(rows, keep, 1), a.shape[2]) :
             rows \in {a.data}, keep \in {mask.data}})

---------------------------------------------------------------------------
(* create_intrinsic_matrix *)

\* CAMERA_MODEL_NAMES.get(model_id, f"unknown model ({model_id})")
ModelName(model_id) ==
    CASE model_id = 0 -> "SIMPLE_PINHOLE"
      [] model_id = 1 -> "PINHOLE"
      [] model_id = 2 -> "SIMPLE_RADIAL"
      [] model_id = 3 -> "RADIAL"
      [] model_id = 4 -> "OPENCV"
      [] model_id = 5 -> "OPENCV_FISHEYE"
      [] model_id = 6 -> "FULL_OPENCV"
      [] model_id = 7 -> "FOV"
      [] model_id = 8 -> "SIMPLE_RADIAL_FISHEYE"
      [] model_id = 9 -> "RADIAL_FISHEYE"
      [] model_id = 10 -> "THIN_PRISM_FISHEYE"
      [] OTHER -> <<"unknown model", model_id>>

\* A value returned to the caller.
Returned(v) == [status |-> "returned", value |-> v]

\* Raised with the error swallowed: it is logged and None is returned.
RaisedSwallowed(exc, msg) ==
    [status |-> "returned", value |-> [status |-> "none"], exc |-> exc,
     msg |-> msg, logged |-> TRUE]

\* An exception that leaves the function through its except clause, which
\* logs the error and raises it again.
Raised(exc, msg) ==
    [status |-> "raised", exc |-> exc, msg |-> msg, logged |-> TRUE]

\* a, b, c = params: the ValueError of a vector that is not n long names the
\* count expected and, when too few, the count got.
UnpackError(n, params) ==
    IF Len(params) < n
    THEN Raised("ValueError",
                [text |-> "not enough values to unpack",
                 expected |-> n, got |-> Len(params)])
    ELSE Raised("ValueError",
                [text |-> "too many values to unpack", expected |-> n])

\* IntrinsicArray laid out by columns: the principal point in the last row.
IntrinsicArrayTransposed(fx, fy, cx, cy) ==
    Array2(<< <<fx, 0, 0>>, <<0, fy, 0>>, <<cx, cy, Num(1)>> >>, 3)

\* np.array([[fx, 0, cx], [0, fy, cy], [0, 0, 1]])
IntrinsicArray(fx, fy, cx, cy) ==
    Array2(<< <<fx, 0, cx>>, <<0, fy, cy>>, <<0, 0, Num(1)>> >>, 3)

\* focal, cx, cy, *_ = params: the ValueError of a vector shorter than n.
UnpackAtLeastError(n, params) ==
    Raised("ValueError",
           [text |-> "not enough values to unpack",
            expected_at_least |-> n, got |-> Len(params)])

\* SimplePinhole unpacking with a star: focal, cx, cy, *_ = params.
SimplePinholeStarred(params) ==
    IF Len(params) < 3 THEN UnpackAtLeastError(3, params)
    ELSE Returned(IntrinsicArray(params[1], params[1], params[2], params[3]))

\* model_id == 0: focal, cx, cy = params
SimplePinhole(params) ==
    IF Len(params) # 3 THEN UnpackError(3, params)
    ELSE Returned(IntrinsicArray(params[1], params[1], params[2], params[3]))

\* Pinhole unpacking a slice: fx, fy, cx, cy = params[:4].
PinholeSliced(params) ==
    IF Len(params) < 4 THEN UnpackError(4, params)
    ELSE Returned(IntrinsicArray(params[1], params[2], params[3], params[4]))

\* model_id == 1: fx, fy, cx, cy = params
Pinhole(params) ==
    IF Len(params) # 4 THEN UnpackError(4, params)
    ELSE Returned(IntrinsicArray(params[1], params[2], params[3], params[4]))

\* Radial with exactly one distortion coefficient: f, cx, cy, k = params.
RadialOneCoefficient(params) ==
    IF Len(params) # 4 THEN UnpackError(4, params)
    ELSE Returned(IntrinsicArray(params[1], params[1], params[2], params[3]))

\* model_id in [2, 3]: focal, cx, cy, *_ = params
Radial(params) ==
    IF Len(params) < 3 THEN UnpackAtLeastError(3, params)
    ELSE Returned(IntrinsicArray(params[1], params[1], params[2], params[3]))

\* model_id == 4: fx, fy, cx, cy, *_ = params
OpenCV(params) ==
    IF Len(params) < 4 THEN UnpackAtLeastError(4, params)
    ELSE Returned(IntrinsicArray(params[1], params[2], params[3], params[4]))

\* Fallback that never raises: the identity matrix for too few parameters.
FallbackIdentity(model_id, params) ==
    IF Len(params) >= 4
    THEN Returned(IntrinsicArray(params[1], params[2], params[3], params[4]))
    ELSE Returned(IntrinsicArray(Num(1), Num(1), 0, 0))

\* Fallback that takes an unknown model for a simple pinhole: f, cx, cy.
FallbackSimplePinhole(model_id, params) ==
    IF Len(params) >= 4
    THEN Returned(IntrinsicArray(params[1], params[1], params[2], params[3]))
    ELSE Raised("ValueError",
                [text |-> "unsupported camera model, too few parameters",
                 model |-> ModelName(model_id)])

\* else: the first four parameters when there are four, otherwise a
\* ValueError whose message names the model and says that the parameters
\* are too few.
Fallback(model_id, params) ==
    IF Len(params) >= 4
    THEN Returned(IntrinsicArray(params[1], params[2], params[3], params[4]))
    ELSE Raised("ValueError",
                [text |-> "unsupported camera model, too few parameters",
                 model |-> ModelName(model_id)])

create_intrinsic_matrix(camera_info) ==
    LET model_id == camera_info.model
        params == camera_info.params
    IN  IF model_id = 0 THEN SimplePinhole(params)
        ELSE IF model_id = 1 THEN Pinhole(params)
        ELSE IF model_id \in {2, 3} THEN Radial(params)
        ELSE IF model_id = 4 THEN OpenCV(params)
        ELSE Fallback(model_id, params)

---------------------------------------------------------------------------
(* project_points_to_image *)

\* points_homo = np.hstack([points3d, np.ones((points3d.shape[0], 1))])
PointsHomo(points3d) == HStack(points3d, Ones(points3d.shape[1]))

\* CameraCoords with the product the other way round: points_homo @ extrinsic.
CameraCoordsSwapped(extrinsic, points_homo) == MatMul(points_homo, extrinsic)

\* camera_coords = (extrinsic @ points_homo.T).T
CameraCoords(extrinsic, points_homo) ==
    Transpose(MatMul(extrinsic, Transpose(points_homo)))

\* ValidMask with >= for >.
ValidMaskNonNegative(camera_coords) ==
    Only({Array1([i \in 1..z.shape[1] |-> z.data[i] >= 0]) :
             z \in {Column(camera_coords, 3)}})

\* valid = camera_coords[:, 2] > 0
ValidMask(camera_coords) ==
    Only({Array1([i \in 1..z.shape[1] |-> z.data[i] > 0]) :
             z \in {Column(camera_coords, 3)}})

\* image_coords = (intrinsic @ camera_coords[:, :3].T).T
ImageCoords(intrinsic, camera_coords) ==
    Transpose(MatMul(intrinsic, Transpose(Columns(camera_coords, 3))))

\* PerspectiveDivide without the division: image_coords[:, :2]
PerspectiveDivideMissing(image_coords) == Columns(image_coords, 2)

\* image_coords[:, :2] / image_coords[:, 2, None]
PerspectiveDivide(image_coords) ==
    Only({Array2([i \in 1..num.shape[1] |->
                     [j \in 1..num.shape[2] |-> FDiv(num.data[i][j], den.data[i])]],
                 num.shape[2]) :
             num \in {Columns(image_coords, 2)}, den \in {Column(image_coords, 3)}})

\* Each Only({... : name \in {value}}) below is one assignment of the
\* function, name = value, written after the code that follows it.
project_points_to_image(points3d, intrinsic, extrinsic) ==
    IF ~HStackOk(points3d, Ones(points3d.shape[1]))
    THEN Raised("ValueError", [text |-> "hstack: dimensions differ"])
    ELSE Only({
        IF ~MatMulOk(extrinsic, Transpose(points_homo))
        THEN Raised("ValueError", [text |-> "matmul: extrinsic"])
        ELSE Only({
            IF camera_coords.shape[2] < 3
            THEN Raised("IndexError", [text |-> "camera_coords[:, 2]"])
            ELSE Only({
                IF ~MatMulOk(intrinsic, Transpose(Columns(front, 3)))
                THEN Raised("ValueError", [text |-> "matmul: intrinsic"])
                ELSE Only({
                    IF image_coords.shape[2] < 3
                    THEN Raised("IndexError", [text |-> "image_coords[:, 2]"])
                    ELSE Returned([image_coords |-> PerspectiveDivide(image_coords),
                                   valid |-> valid])
                    : image_coords \in {ImageCoords(intrinsic, front)}})
                : valid \in {ValidMask(camera_coords)},
                  front \in {MaskRows(camera_coords, ValidMask(camera_coords))}})
            : camera_coords \in {CameraCoords(extrinsic, points_homo)}})
        : points_homo \in {PointsHomo(points3d)}})

---------------------------------------------------------------------------
(* The data the two functions are called on *)

\* An unset result.
None == [status |-> "none"]

\* The values a camera parameter takes: a zero and two positive values.
ParamValues == {Num(0), Num(1), Num(3)}

\* Camera models: the five the resolver knows, a named one it does not
\* (OPENCV_FISHEYE, THIN_PRISM_FISHEYE) and one without a name.
ModelIds == {0, 1, 2, 3, 4, 5, 10, 11}

RECURSIVE SeqsUpTo(_, _)
SeqsUpTo(S, n) ==
    IF n = 0 THEN {<<>>}
    ELSE LET shorter == SeqsUpTo(S, n - 1)
         IN  shorter \cup {Append(s, x) : s \in {t \in shorter : Len(t) = n - 1}, x \in S}

\* The camera records of a dataset (parse_colmap_data: model, params).
Cameras ==
    {[model |-> m, params |-> p] : m \in ModelIds, p \in SeqsUpTo(ParamValues, MaxParams)}

\* The cameras the projection is run with.
ProjCameras ==
    {[model |-> 1, params |-> <<Num(1), Num(3), Num(3), Num(1)>>],
     [model |-> 4, params |-> <<Num(3), Num(1), Num(1), Num(2), Num(1)>>]}

\* World points: x and y on or off the axis, z behind, on and before the
\* plane of the camera.
WorldPoints ==
    {<<x, y, z>> : x \in {Num(0), Num(3)}, y \in {Num(0), Num(3)},
                   z \in {Num(-1), Num(0), Num(3)}}

Clouds == SeqsUpTo(WorldPoints, MaxPoints)

\* The 'points' entry task1_colmap.save_reconstruction_data stores:
\* np.asarray(point_cloud.points) if point_cloud.has_points() else np.array([])
ExportPoints(cloud) ==
    IF Len(cloud) > 0 THEN Array2(cloud, 3) ELSE EmptyArray1

\* The point arrays project is called with: what the exporter stored (the
\* loader returns data['points'] as stored) and the empty (0, 3) array of a
\* direct call.
PointArrays == {ExportPoints(c) : c \in Clouds} \cup {Array2(<<>>, 3)}

\* parse_colmap_data: extrinsic = np.eye(4); extrinsic[:3, :3] = R;
\* extrinsic[:3, 3] = t
Extrinsic(R, t) ==
    Array2(<< R[1] \o <<t[1]>>, R[2] \o <<t[2]>>, R[3] \o <<t[3]>>,
              <<0, 0, 0, Num(1)>> >>, 4)

\* Rotations: none, a quarter turn about x, a quarter turn about y.
Rotations ==
    {<< <<Num(1), 0, 0>>, <<0, Num(1), 0>>, <<0, 0, Num(1)>> >>,
     << <<Num(1), 0, 0>>, <<0, 0, Num(-1)>>, <<0, Num(1), 0>> >>,
     << <<0, 0, Num(1)>>, <<0, Num(1), 0>>, <<Num(-1), 0, 0>> >>}

Translations == {<<0, 0, 0>>, <<Num(1), 0, Num(-1)>>}

Extrinsics == {Extrinsic(R, t) : R \in Rotations, t \in Translations}

Identity4 ==
    Extrinsic(<< <<Num(1), 0, 0>>, <<0, Num(1), 0>>, <<0, 0, Num(1)>> >>,
              <<0, 0, 0>>)

---------------------------------------------------------------------------
(* The state machine: a caller resolves a camera's intrinsics and projects *)
(* a point array with them, as run_visualization_pipeline does.            *)

VARIABLES
    pc,           \* "start", "resolved", "projected" or "failed"
    camera_info,  \* the camera record passed to create_intrinsic_matrix
    points3d,     \* the point array passed to project_points_to_image
    extrinsic,    \* the image's extrinsic matrix
    intrinsic,    \* what create_intrinsic_matrix did
    projection,   \* what project_points_to_image did
    container,    \* the .npz file at the path given to load_colmap_data
    dataset,      \* what load_colmap_data did
    pipeline,     \* what run_visualization_pipeline did
    heap,         \* the objects of a loaded dataset, by name
    renderer,     \* the fields of the OpenGLRenderer
    outputs,      \* what the other consumers of the dataset returned
    resolved,     \* per image, what create_intrinsic_matrix did for it
    frames,       \* per thread, the call it runs and its local variables
    log,          \* the records written with logging.error, in order
    disk,         \* the reconstruction workspace: sparse models, dense files
    colmap,       \* how far run_colmap_pipeline has come
    export,       \* what save_reconstruction_data did
    window        \* the fields of task2_gui.MainWindow and its viewers

coreVars == <<camera_info, points3d, extrinsic, intrinsic, projection>>

\* The tools around the loader: the reconstruction run, the export of its
\* results and the viewer window of task2_gui.
toolVars == <<disk, colmap, export, window>>

loaderVars == <<container, dataset, pipeline, toolVars>>

sessionVars == <<heap, renderer, outputs, resolved>>

vars == <<pc, coreVars, loaderVars, sessionVars, frames, log>>

\* The variables of a component that is not running.
ToolsIdle == disk = None /\ colmap = None /\ export = None /\ window = None

LoaderIdle == container = None /\ dataset = None /\ pipeline = None /\ ToolsIdle

SessionIdle == heap = None /\ renderer = None /\ outputs = None /\ resolved = None

ThreadsIdle == frames = None

\* Nothing has been logged.
NoLog == log = <<>>

\* Every camera with one fixed point array, and the projection cameras with
\* every point array and extrinsic.
Init ==
    /\ pc = "start"
    /\ intrinsic = None
    /\ projection = None
    /\ \/ /\ camera_info \in Cameras
          /\ points3d = Array2(<< <<Num(0), Num(0), Num(1)>> >>, 3)
          /\ extrinsic = Identity4
       \/ /\ camera_info \in ProjCameras
          /\ points3d \in PointArrays
          /\ extrinsic \in Extrinsics
    /\ LoaderIdle /\ SessionIdle /\ ThreadsIdle /\ NoLog

\* intrinsic = create_intrinsic_matrix(camera_info)
CreateIntrinsicMatrix ==
    /\ pc = "start"
    /\ intrinsic' = create_intrinsic_matrix(camera_info)
    /\ pc' = IF intrinsic'.status = "returned" THEN "resolved" ELSE "failed"
    /\ UNCHANGED <<camera_info, points3d, extrinsic, projection>>
    /\ UNCHANGED <<loaderVars, sessionVars, frames, log>>

\* points2d, valid = project_points_to_image(points, intrinsic, extrinsic)
ProjectPointsToImage ==
    /\ pc = "resolved"
    /\ projection' = project_points_to_image(points3d, intrinsic.value, extrinsic)
    /\ pc' = IF projection'.status = "returned" THEN "projected" ELSE "failed"
    /\ UNCHANGED <<camera_info, points3d, extrinsic, intrinsic>>
    /\ UNCHANGED <<loaderVars, sessionVars, frames, log>>

Next == CreateIntrinsicMatrix \/ ProjectPointsToImage

Spec == Init /\ [][Next]_vars

---------------------------------------------------------------------------
(* Properties of the projection.  They are stated point by point, from the *)
(* inputs held in the state, and compared with what the call returned.     *)

\* project_points_to_image has been called.
ProjectCalled == projection # None

ProjectReturned == projection.status = "returned"

\* The number of input points.
NPoints == points3d.shape[1]

\* Component r of extrinsic @ [x, y, z, 1] for input point i.
CamCoord(i, r) == Dot(extrinsic.data[r], points3d.data[i] \o <<Num(1)>>)

\* The camera-frame Z of input point i.
CamZ(i) == CamCoord(i, 3)

\* The input points in front of the camera.
FrontIdx == {i \in 1..NPoints : CamZ(i) > 0}

\* The place of input point i among the points in front of the camera.
Rank(i) == Cardinality({j \in FrontIdx : j <= i})

\* (K @ c)[0:2] / (K @ c)[2] for c the camera-frame coordinates of point i.
Pixel(i) ==
    LET K == intrinsic.value.data
        c == <<CamCoord(i, 1), CamCoord(i, 2), CamCoord(i, 3)>>
    IN  <<FDiv(Dot(K[1], c), Dot(K[3], c)), FDiv(Dot(K[2], c), Dot(K[3], c))>>

\* C1: a point is marked valid if and only if its camera-frame Z is strictly
\* positive; a point with Z <= 0 (Z = 0 included) has mask entry False and
\* adds no row to the 2D output.
C1_ValidIffPositiveZ ==
    (ProjectCalled /\ NDim(points3d) = 2) =>
        /\ ProjectReturned
        /\ projection.value.valid.shape = <<NPoints>>
        /\ \A i \in 1..NPoints : projection.value.valid.data[i] <=> (CamZ(i) > 0)
        /\ projection.value.image_coords.shape[1] = Cardinality(FrontIdx)
        /\ Len(projection.value.image_coords.data) = Cardinality(FrontIdx)

\* Two points under a turned camera, one with Z = 0 that is dropped and one
\* with Z > 0 that is kept.
C1_Witness ==
    /\ ProjectCalled /\ ProjectReturned
    /\ extrinsic # Identity4
    /\ NPoints = 2
    /\ CamZ(1) = 0 /\ ~projection.value.valid.data[1]
    /\ CamZ(2) > 0 /\ projection.value.valid.data[2]
    /\ projection.value.image_coords.shape[1] = 1

\* The input point is (0, 0, z) with z > 0.
OnAxis(i) ==
    /\ points3d.data[i][1] = 0
    /\ points3d.data[i][2] = 0
    /\ points3d.data[i][3] > 0

\* The exact product of the floats x and y is a float.
ExactProduct(x, y) == FMul(x, y) * Unit = x * y

\* Every valid point's output row is (K @ c)[0:2] / (K @ c)[2] with
\* c = (extrinsic @ [p, 1])[0:3].
ExtrinsicThenIntrinsicThenDivide ==
    (ProjectCalled /\ ProjectReturned) =>
        /\ projection.value.image_coords.shape[1] = Cardinality(FrontIdx)
        /\ \A i \in FrontIdx :
               projection.value.image_coords.data[Rank(i)] = Pixel(i)

\* C2 as claimed: every valid point's pixel is (K @ c)[0:2] / (K @ c)[2],
\* c = (extrinsic @ [p, 1])[0:3]; and with the identity extrinsic a point
\* (0, 0, z), z > 0, projects exactly to the principal point (cx, cy) with
\* mask True.
C2_Original ==
    /\ ExtrinsicThenIntrinsicThenDivide
    /\ (ProjectCalled /\ ProjectReturned /\ extrinsic = Identity4) =>
           \A i \in 1..NPoints : OnAxis(i) =>
               /\ projection.value.valid.data[i]
               /\ projection.value.image_coords.data[Rank(i)] =
                      <<intrinsic.value.data[1][3], intrinsic.value.data[2][3]>>

\* C2 (amended): every valid point's pixel is (K @ c)[0:2] / (K @ c)[2],
\* c = (extrinsic @ [p, 1])[0:3]; and with the identity extrinsic a point
\* (0, 0, z), z > 0, has mask True and the pixel (fl(fl(cx z) / z),
\* fl(fl(cy z) / z)), which is cx (cy) exactly whenever the product cx z
\* (cy z) is itself a float.
C2_PixelIsIntrinsicOfExtrinsic ==
    /\ ExtrinsicThenIntrinsicThenDivide
    /\ (ProjectCalled /\ ProjectReturned /\ extrinsic = Identity4) =>
           \A i \in 1..NPoints : OnAxis(i) =>
               LET cx == intrinsic.value.data[1][3]
                   cy == intrinsic.value.data[2][3]
                   z == points3d.data[i][3]
                   uv == projection.value.image_coords.data[Rank(i)]
               IN  /\ projection.value.valid.data[i]
                   /\ uv = <<FDiv(FMul(cx, z), z), FDiv(FMul(cy, z), z)>>
                   /\ ExactProduct(cx, z) => uv[1] = cx
                   /\ ExactProduct(cy, z) => uv[2] = cy

\* The identity extrinsic, an on-axis point whose products with cx and cy
\* are floats, projected exactly to the principal point; and beside it a
\* point off the axis.
C2_Witness ==
    /\ ProjectCalled /\ ProjectReturned
    /\ extrinsic = Identity4
    /\ NPoints = 2
    /\ OnAxis(1) /\ ~OnAxis(2) /\ 2 \in FrontIdx
    /\ ExactProduct(intrinsic.value.data[1][3], points3d.data[1][3])
    /\ ExactProduct(intrinsic.value.data[2][3], points3d.data[1][3])
    /\ intrinsic.value.data[1][3] # intrinsic.value.data[2][3]
    /\ projection.value.image_coords.data[1] =
           <<intrinsic.value.data[1][3], intrinsic.value.data[2][3]>>

\* The input points the returned mask marks True, in input order.
RECURSIVE MaskedFrom(_)
MaskedFrom(i) ==
    IF i > NPoints THEN <<>>
    ELSE (IF projection.value.valid.data[i] THEN <<points3d.data[i]>> ELSE <<>>)
         \o MaskedFrom(i + 1)

\* The projection of the single point p under the same camera.
ProjectOne(p) ==
    project_points_to_image(Array2(<<p>>, 3), intrinsic.value, extrinsic)

\* C3: the mask has exactly N entries, the 2D output has exactly as many
\* rows as the mask has True entries, and row k is the projection of the
\* k-th input point the mask selects.
C3_MaskAndRowsLineUp ==
    (ProjectCalled /\ NDim(points3d) = 2) =>
        /\ ProjectReturned
        /\ projection.value.valid.shape = <<NPoints>>
        /\ Len(projection.value.valid.data) = NPoints
        /\ LET kept == MaskedFrom(1)
               rows == projection.value.image_coords
           IN  /\ rows.shape = <<Len(kept), 2>>
               /\ Len(rows.data) = Len(kept)
               /\ \A k \in 1..Len(kept) : \E one \in {ProjectOne(kept[k])} :
                      /\ one.status = "returned"
                      /\ one.value.valid.data = <<TRUE>>
                      /\ one.value.image_coords.data = <<rows.data[k]>>

\* The first of two points is dropped and the second kept, so that output
\* row 1 belongs to input point 2.
C3_Witness ==
    /\ ProjectCalled /\ ProjectReturned
    /\ NPoints = 2
    /\ projection.value.valid.data = <<FALSE, TRUE>>
    /\ projection.value.image_coords.shape = <<1, 2>>
    /\ projection.value.image_coords.data[1] = Pixel(2)

---------------------------------------------------------------------------
(* Properties of the camera-model resolver. *)

\* create_intrinsic_matrix has been called.
ResolveCalled == intrinsic # None

\* The matrix [[fx, 0, cx], [0, fy, cy], [0, 0, 1]].
Canonical(fx, fy, cx, cy) ==
    [shape |-> <<3, 3>>,
     data |-> << <<fx, 0, cx>>, <<0, fy, cy>>, <<0, 0, Num(1)>> >>]

\* The call returned the matrix m and raised nothing.
ResolvedTo(m) ==
    /\ intrinsic.status = "returned"
    /\ intrinsic.value = m

\* The call raised an error and returned no matrix.
Rejected ==
    /\ intrinsic.status = "raised"
    /\ "value" \notin DOMAIN intrinsic
    /\ pc = "failed"

\* C4: with model_id 1 and params [fx, fy, cx, cy] the result is exactly
\* [[fx, 0, cx], [0, fy, cy], [0, 0, 1]]; params of any other length are
\* rejected with an error.
C4_PinholeExact ==
    (ResolveCalled /\ camera_info.model = 1) =>
        LET p == camera_info.params
        IN  IF Len(p) = 4
            THEN ResolvedTo(Canonical(p[1], p[2], p[3], p[4]))
            ELSE Rejected

\* A pinhole camera whose four parameters tell fx from fy and cx from cy.
C4_Witness ==
    /\ ResolveCalled
    /\ camera_info.model = 1
    /\ Len(camera_info.params) = 4
    /\ camera_info.params[1] # camera_info.params[2]
    /\ camera_info.params[3] # camera_info.params[4]
    /\ camera_info.params[1] # camera_info.params[3]
    /\ intrinsic.status = "returned"

\* C5: with model_id 0 and params [f, cx, cy] the result is
\* [[f, 0, cx], [0, f, cy], [0, 0, 1]]; params of any other length are
\* rejected with an error.
C5_SimplePinholeExact ==
    (ResolveCalled /\ camera_info.model = 0) =>
        LET p == camera_info.params
        IN  IF Len(p) = 3
            THEN ResolvedTo(Canonical(p[1], p[1], p[2], p[3]))
            ELSE Rejected

\* A simple pinhole camera with three different parameters.
C5_Witness ==
    /\ ResolveCalled
    /\ camera_info.model = 0
    /\ Len(camera_info.params) = 3
    /\ Cardinality({camera_info.params[i] : i \in 1..3}) = 3
    /\ intrinsic.status = "returned"

\* The first n entries of p.
Prefix(p, n) == SubSeq(p, 1, n)

\* C6: for model_id 2 or 3 and at least three params the result is
\* [[f, 0, cx], [0, f, cy], [0, 0, 1]] from the first three; for model_id 4
\* and at least four params it is [[fx, 0, cx], [0, fy, cy], [0, 0, 1]] from
\* the first four; params that agree on that prefix give the same matrix.
C6_DistortionIgnored ==
    LET p == camera_info.params
        m == camera_info.model
        n == IF m = 4 THEN 4 ELSE 3
    IN  (ResolveCalled /\ m \in {2, 3, 4} /\ Len(p) >= n) =>
            /\ m \in {2, 3} => ResolvedTo(Canonical(p[1], p[1], p[2], p[3]))
            /\ m = 4 => ResolvedTo(Canonical(p[1], p[2], p[3], p[4]))
            /\ \A tail \in SeqsUpTo(ParamValues, MaxParams - n) :
                   create_intrinsic_matrix(
                       [model |-> m, params |-> Prefix(p, n) \o tail]) = intrinsic

\* A radial camera with two distortion coefficients after f, cx, cy.
C6_Witness ==
    /\ ResolveCalled
    /\ camera_info.model = 3
    /\ Len(camera_info.params) = 5
    /\ camera_info.params[4] # 0 /\ camera_info.params[5] # 0
    /\ intrinsic.status = "returned"

\* The model is none of the five the resolver has a branch for.
Unsupported == camera_info.model \notin {0, 1, 2, 3, 4}

C8_FallbackFirstFour ==
    (ResolveCalled /\ Unsupported /\ Len(camera_info.params) >= 4) =>
        LET p == camera_info.params
        IN  ResolvedTo(Canonical(p[1], p[2], p[3], p[4]))

\* An unsupported model with five parameters, the first four telling fx
\* from fy and cx from cy.
C8_Witness ==
    /\ ResolveCalled
    /\ Unsupported
    /\ Len(camera_info.params) = 5
    /\ camera_info.params[1] # camera_info.params[2]
    /\ camera_info.params[3] # camera_info.params[4]
    /\ camera_info.params[2] # camera_info.params[3]
    /\ intrinsic.status = "returned"

\* The focal lengths among the params of a supported model.
FocalInputs ==
    IF camera_info.model \in {1, 4}
    THEN {camera_info.params[1], camera_info.params[2]}
    ELSE {camera_info.params[1]}

\* C9: a matrix returned for model_id 0,...,4 has last row [0, 0, 1], zeros
\* at [0][1] and [1][0], and fx = [0][0] and fy = [1][1] strictly positive
\* whenever the input focal lengths are.
C9_CanonicalShape ==
    (ResolveCalled /\ camera_info.model \in 0..4 /\ intrinsic.status = "returned") =>
        LET K == intrinsic.value
        IN  /\ K.shape = <<3, 3>>
            /\ K.data[3] = <<0, 0, Num(1)>>
            /\ K.data[1][2] = 0
            /\ K.data[2][1] = 0
            /\ (\A f \in FocalInputs : f > 0) =>
                   (K.data[1][1] > 0 /\ K.data[2][2] > 0)

\* An OpenCV camera with positive focal lengths and a principal point off
\* the origin.
C9_Witness ==
    /\ ResolveCalled
    /\ camera_info.model = 4
    /\ intrinsic.status = "returned"
    /\ \A f \in FocalInputs : f > 0
    /\ camera_info.params[3] > 0 /\ camera_info.params[4] > 0

\* C10: called with no points (N = 0), project returns an empty 2D output
\* and an empty mask and raises nothing, whichever way the empty point set
\* is held, the np.array([]) of the exporter included.
C10_EmptyInEmptyOut ==
    (ProjectCalled /\ NPoints = 0) =>
        /\ ProjectReturned
        /\ projection.value.image_coords.shape[1] = 0
        /\ projection.value.image_coords.data = <<>>
        /\ projection.value.valid.data = <<>>

---------------------------------------------------------------------------
(* project_points_to_image called with matrices of any shape.  The caller  *)
(* passes the intrinsic matrix itself, so it need not come from            *)
(* create_intrinsic_matrix.                                                *)

\* The rows [fx, 0, cx], [0, fy, cy], [0, 0, 1] of a 3x3 intrinsic matrix.
IntrinsicRows ==
    << <<Num(1), 0, Num(3)>>, <<0, Num(3), Num(1)>>, <<0, 0, Num(1)>> >>

\* Intrinsic matrices by shape: 3x3, 4x3 (a row added), 2x3 (the last row
\* missing), 3x4 (a column added) and 3x2 (the last column missing).
IntrinsicsOfAnyShape ==
    {Array2(IntrinsicRows, 3),
     Array2(IntrinsicRows \o << <<0, 0, 0>> >>, 3),
     Array2(SubSeq(IntrinsicRows, 1, 2), 3),
     Array2([i \in 1..3 |-> IntrinsicRows[i] \o <<0>>], 4),
     Array2([i \in 1..3 |-> SubSeq(IntrinsicRows[i], 1, 2)], 2)}

\* Extrinsic matrices by shape, from each 4x4 one: 4x4, 3x4 (the [R | t]
\* block without the last row), 5x4 (a row added), 4x3 (the translation
\* column missing) and 3x3 (the rotation alone).
ExtrinsicsOfAnyShape ==
    UNION {{e,
            Array2(SubSeq(e.data, 1, 3), 4),
            Array2(e.data \o << <<0, 0, 0, 0>> >>, 4),
            Array2([i \in 1..4 |-> SubSeq(e.data[i], 1, 3)], 3),
            Array2([i \in 1..3 |-> SubSeq(e.data[i], 1, 3)], 3)} :
           e \in Extrinsics}

\* The caller holds an intrinsic matrix and calls project with it.
InitShapes ==
    /\ pc = "resolved"
    /\ camera_info = None
    /\ intrinsic \in {Returned(k) : k \in IntrinsicsOfAnyShape}
    /\ extrinsic \in ExtrinsicsOfAnyShape
    /\ points3d \in PointArrays
    /\ projection = None
    /\ LoaderIdle /\ SessionIdle /\ ThreadsIdle /\ NoLog

NextShapes == ProjectPointsToImage

SpecShapes == InitShapes /\ [][NextShapes]_vars

\* The intrinsic is 3x3 and the extrinsic 4x4.
WellShaped == intrinsic.value.shape = <<3, 3>> /\ extrinsic.shape = <<4, 4>>

\* C11: whenever the intrinsic is not 3x3 or the extrinsic is not 4x4,
\* project fails with an error (DimensionMismatch in the claim; the
\* error's name is left open here) and returns no coordinates: it never
\* returns a result computed from a malformed matrix.
C11_MalformedNeverProceeds ==
    (ProjectCalled /\ ~WellShaped /\ NPoints > 0) => projection.status = "raised"

---------------------------------------------------------------------------
(* load_colmap_data.  The file at the path is an .npz archive: a mapping   *)
(* from key names to stored arrays.  np.savez stores a dict as an array of *)
(* no dimension that holds the dict, and .item() takes it out again.       *)

\* A key the archive does not hold.
Absent == [status |-> "absent"]

\* No file at the path.
NoFile == [status |-> "no file"]

\* What np.savez stores for an object that is not an array.
Array0(obj) == [shape |-> <<>>, data |-> obj]

\* a.item() of an array of no dimension
Item(a) == a.data

\* a.size
RECURSIVE Size(_)
Size(a) == IF a.shape = <<>> THEN 1 ELSE a.shape[1] * Size([shape |-> Tail(a.shape)])

\* The keys of the archive, in the order load_colmap_data reads them.
KeyNames ==
    <<"points", "colors", "vertices", "triangles", "vertex_colors",
      "cameras", "images">>

\* IndexedKeys with the mesh keys read by data[key] as well.
IndexedKeysAll == {"points", "colors", "vertices", "triangles", "cameras", "images"}

\* The keys read with data[key]; the others are read with data.get.
IndexedKeys == {"points", "colors", "cameras", "images"}

\* NpzGet with an empty array for a key the archive lacks.
NpzGetEmptyArray(data, key) == IF data[key] # Absent THEN data[key] ELSE EmptyArray1

\* data.get(key, None)
NpzGet(data, key) == IF data[key] # Absent THEN data[key] ELSE None

\* data[key] of a key the archive does not hold: the KeyError names the key.
NpzKeyError(key) ==
    Raised("KeyError", [text |-> "is not a file in the archive", key |-> key])

\* The keys read with data[key] that the archive does not hold, as their
\* places in the reading order.
MissingIndexed(data) ==
    {i \in 1..Len(KeyNames) : KeyNames[i] \in IndexedKeys /\ data[KeyNames[i]] = Absent}

\* The first of them: the one whose data[key] raises.
FirstMissing(data) ==
    KeyNames[CHOOSE i \in MissingIndexed(data) : \A j \in MissingIndexed(data) : i <= j]

\* np.load raises for a missing file; each data[key] raises KeyError for a
\* missing key; the except clause logs the error and raises it again.
load_colmap_data(path) ==
    IF path = NoFile
    THEN Raised("FileNotFoundError", [text |-> "No such file or directory"])
    ELSE IF MissingIndexed(path) # {} THEN NpzKeyError(FirstMissing(path))
    ELSE Returned([points |-> path["points"],
                   colors |-> path["colors"],
                   vertices |-> NpzGet(path, "vertices"),
                   triangles |-> NpzGet(path, "triangles"),
                   vertex_colors |-> NpzGet(path, "vertex_colors"),
                   cameras |-> Item(path["cameras"]),
                   images |-> Item(path["images"])])

---------------------------------------------------------------------------
(* run_visualization_pipeline: the caller of load_colmap_data that asks    *)
(* for the intrinsics of an image.  Windows, image files and plots are     *)
(* outside the model: an error inside them is caught by the same except    *)
(* clauses and changes neither the return value nor what is raised.        *)

\* logger.error(text) / logger.warning(text)
LogRecord(level, text, detail) == [level |-> level, text |-> text, detail |-> detail]

\* An exception raised where no except clause logs it.
Propagated(exc, msg) ==
    [status |-> "raised", exc |-> exc, msg |-> msg, logged |-> FALSE]

\* What the except clause of a function of utils.py logs for an outcome.
LoggedBy(text, outcome) ==
    IF outcome.status = "raised" /\ outcome.logged
    THEN <<LogRecord("error", text, outcome.exc)>> ELSE <<>>

\* The image the pipeline picks: list(data['images'].keys())[10]
ProjectionImageIndex == 10

\* create_point_cloud raises ValueError for empty points or colors; the
\* pipeline logs it.
PointCloudStep(data) ==
    IF Size(data.points) > 0 /\ Size(data.colors) = 0
    THEN <<LogRecord("error", "point cloud visualization failed", "ValueError")>>
    ELSE <<>>

\* create_mesh raises ValueError for triangles that are None; the pipeline
\* logs it.
MeshStep(data) ==
    IF data.vertices # None /\ data.triangles = None
    THEN <<LogRecord("error", "mesh visualization failed", "ValueError")>>
    ELSE <<>>

\* The try block of the projection check: what is logged by the two
\* functions and by the except clause around them.
ResolveAndProject(data, image_info) ==
    LET K == create_intrinsic_matrix(data.cameras[image_info.camera_id])
    IN  IF K.status = "raised"
        THEN LoggedBy("creating the intrinsic matrix failed", K)
             \o <<LogRecord("error", "error during projection", K.exc)>>
        ELSE LET P == project_points_to_image(data.points, K.value, image_info.extrinsic)
             IN  IF P.status = "raised"
                 THEN LoggedBy("point projection failed", P)
                      \o <<LogRecord("error", "error during projection", P.exc)>>
                 ELSE <<>>

\* ProjectionStep raising for a camera id that is not in the camera
\* mapping, with the image's name and the id.
ProjectionStepRaising(data) ==
    IF Len(data.images) > 0 /\ Size(data.points) > 0
    THEN IF Len(data.images) <= ProjectionImageIndex
         THEN [outcome |-> Propagated("IndexError", [text |-> "list index out of range"]),
               log |-> <<>>]
         ELSE LET image_info == data.images[ProjectionImageIndex + 1]
              IN  IF image_info.camera_id \in DOMAIN data.cameras
                  THEN [outcome |-> Returned(TRUE),
                        log |-> ResolveAndProject(data, image_info)]
                  ELSE [outcome |-> Propagated("DanglingCameraReference",
                                               [image |-> image_info.name,
                                                camera_id |-> image_info.camera_id]),
                        log |-> <<>>]
    ELSE [outcome |-> Returned(TRUE),
          log |-> <<LogRecord("warning", "no points or images, projection skipped", None)>>]

\* The projection check: the eleventh image is picked (an IndexError leaves
\* the pipeline when there are fewer); a camera id that is not in the
\* camera mapping is logged with the id, and the pipeline goes on.
ProjectionStep(data) ==
    IF Len(data.images) > 0 /\ Size(data.points) > 0
    THEN IF Len(data.images) <= ProjectionImageIndex
         THEN [outcome |-> Propagated("IndexError", [text |-> "list index out of range"]),
               log |-> <<>>]
         ELSE LET image_info == data.images[ProjectionImageIndex + 1]
              IN  IF image_info.camera_id \in DOMAIN data.cameras
                  THEN [outcome |-> Returned(TRUE),
                        log |-> ResolveAndProject(data, image_info)]
                  ELSE [outcome |-> Returned(TRUE),
                        log |-> <<LogRecord("error", "camera id not found",
                                            image_info.camera_id)>>]
    ELSE [outcome |-> Returned(TRUE),
          log |-> <<LogRecord("warning", "no points or images, projection skipped", None)>>]

\* The outcome of the pipeline and the records it logs.
run_visualization_pipeline(data_path) ==
    LET loaded == load_colmap_data(data_path)
    IN  IF loaded.status = "raised"
        THEN [outcome |-> Returned(FALSE),
              log |-> LoggedBy("loading COLMAP data failed", loaded)
                      \o <<LogRecord("error", "loading the reconstruction failed",
                                     loaded.exc)>>]
        ELSE LET data == loaded.value
                 step == ProjectionStep(data)
             IN  [outcome |-> step.outcome,
                  log |-> PointCloudStep(data) \o MeshStep(data) \o step.log]

---------------------------------------------------------------------------
(* The archives the loader is given, and the state machine of a caller     *)
(* that loads one and then runs the pipeline on it.                        *)

\* One point before the camera, its colour, and a one-triangle mesh with
\* colours on the 0..255 scale.
CloudPoints == Array2(<< <<Num(0), Num(0), Num(3)>> >>, 3)

CloudColors == Array2(<< <<Num(1), Num(0), Num(0)>> >>, 3)

MeshVertices ==
    Array2(<< <<Num(0), Num(0), Num(0)>>, <<Num(3), Num(0), Num(0)>>,
              <<Num(0), Num(3), Num(3)>> >>, 3)

MeshTriangles == Array2(<< <<0, 1, 2>> >>, 3)

MeshVertexColors ==
    Array2(<< <<Num(2), Num(0), Num(0)>>, <<Num(0), Num(2), Num(0)>>,
              <<Num(0), Num(0), Num(2)>> >>, 3)

\* The camera mappings: no camera, camera 1 with parameters that fit its
\* model, camera 1 with parameters that do not.
CameraMaps ==
    {[id \in {} |-> None]}
    \cup {[id \in {1} |-> c] : c \in ProjCameras}
    \cup {[id \in {1} |-> [model |-> 0, params |-> <<Num(1), Num(3), Num(3), Num(1)>>]]}

\* n images in the order of the mapping; those in dangling refer to camera
\* 2, which no camera mapping holds, the others to camera 1.
ImageList(n, dangling) ==
    [i \in 1..n |-> [name |-> <<"image", i>>,
                     camera_id |-> IF i \in dangling THEN 2 ELSE 1,
                     extrinsic |-> Identity4]]

ImageLists ==
    {ImageList(n, d) : n \in {0, MaxImages - 1, MaxImages},
                       d \in {{}, {1}, {ProjectionImageIndex + 1}}}

Containers ==
    {NoFile} \cup
    {[k \in {KeyNames[i] : i \in 1..Len(KeyNames)} |->
        CASE k = "points" -> p [] k = "colors" -> c [] k = "vertices" -> v
          [] k = "triangles" -> t [] k = "vertex_colors" -> vc
          [] k = "cameras" -> cams [] k = "images" -> imgs] :
     p \in {Absent, CloudPoints, EmptyArray1},
     c \in {Absent, CloudColors, EmptyArray1},
     v \in {Absent, MeshVertices},
     t \in {Absent, MeshTriangles},
     vc \in {Absent, MeshVertexColors},
     cams \in {Absent} \cup {Array0(m) : m \in CameraMaps},
     imgs \in {Absent} \cup {Array0(l) : l \in ImageLists}}

InitLoad ==
    /\ pc = "start"
    /\ container \in Containers
    /\ dataset = None
    /\ pipeline = None
    /\ ToolsIdle
    /\ camera_info = None /\ points3d = None /\ extrinsic = None
    /\ intrinsic = None /\ projection = None
    /\ SessionIdle /\ ThreadsIdle /\ NoLog

\* data = load_colmap_data(path)
LoadColmapData ==
    /\ pc = "start"
    /\ dataset' = load_colmap_data(container)
    /\ log' = log \o LoggedBy("loading COLMAP data failed", dataset')
    /\ pc' = IF dataset'.status = "returned" THEN "loaded" ELSE "load failed"
    /\ UNCHANGED <<container, pipeline, toolVars, coreVars, sessionVars, frames>>

\* success = run_visualization_pipeline(data_path, image_dir, output_dir)
RunVisualizationPipeline ==
    /\ pc \in {"loaded", "load failed"}
    /\ \E run \in {run_visualization_pipeline(container)} :
          /\ pipeline' = run.outcome
          /\ log' = log \o run.log
    /\ pc' = "ran"
    /\ UNCHANGED <<container, dataset, toolVars, coreVars, sessionVars, frames>>

NextLoad == LoadColmapData \/ RunVisualizationPipeline

SpecLoad == InitLoad /\ [][NextLoad]_vars

---------------------------------------------------------------------------
(* Properties of the loader and of the pipeline that calls it.             *)

\* load_colmap_data has been called.
LoadCalled == dataset # None

\* The file exists and holds every key of the set.
HasKeys(keys) == container # NoFile /\ \A k \in keys : container[k] # Absent

\* The file exists and holds no key of the set.
LacksKeys(keys) == container # NoFile /\ \A k \in keys : container[k] = Absent

\* C12: given an archive with points, cameras and images and no colors
\* key, the loader succeeds and returns as colors a uniform (mid-gray)
\* array with one row per point.
C12_MissingColorsDefaultGray ==
    (LoadCalled /\ HasKeys({"points", "cameras", "images"}) /\ LacksKeys({"colors"})) =>
        /\ dataset.status = "returned"
        /\ dataset.value.colors.shape = <<Len(container["points"].data), 3>>
        /\ \E gray \in {Num(1)} \cup {FDiv(Num(1), Num(2))} :
              \A i \in 1..Len(dataset.value.colors.data) :
                  dataset.value.colors.data[i] = <<gray, gray, gray>>

\* The keys spec and claim call required, and the optional ones.
RequiredKeys == {"points", "cameras", "images"}

OptionalKeys == {"vertices", "triangles", "vertex_colors"}

\* The loader returned a dataset.
Loaded == LoadCalled /\ dataset.status = "returned"

\* The pipeline has run on the loaded dataset.
PipelineRan == pc = "ran" /\ Loaded

\* Image i of the loaded dataset refers to a camera the dataset lacks.
Dangling(i) ==
    /\ i \in 1..Len(dataset.value.images)
    /\ dataset.value.images[i].camera_id \notin DOMAIN dataset.value.cameras

\* The pipeline asks for the intrinsics of image i: it reaches the
\* projection check and picks that image.
IntrinsicsRequested(i) ==
    /\ PipelineRan
    /\ Size(dataset.value.points) > 0
    /\ i = ProjectionImageIndex + 1
    /\ i <= Len(dataset.value.images)

\* The records of the log that report a camera id as not found.
NotFoundRecords == {k \in 1..Len(log) : log[k].text = "camera id not found"}

---------------------------------------------------------------------------
(* The three functions of utils.py side by side: each state is one call of *)
(* create_intrinsic_matrix (and the projection that follows it), of        *)
(* project_points_to_image with matrices of any shape, or of               *)
(* load_colmap_data.                                                       *)

InitCalls ==
    \/ Init
    \/ InitShapes /\ points3d \in {CloudPoints, EmptyArray1}
    \/ InitLoad

NextCalls ==
    \/ camera_info # None /\ CreateIntrinsicMatrix
    \/ ProjectPointsToImage
    \/ container # None /\ LoadColmapData

SpecCalls == InitCalls /\ [][NextCalls]_vars

\* The unpacking of params fails for the camera's model: the vector is not
\* as long as the targets, or shorter than the targets before the star.
UnpackFails ==
    LET n == Len(camera_info.params)
    IN  CASE camera_info.model = 0 -> n # 3
          [] camera_info.model = 1 -> n # 4
          [] camera_info.model \in {2, 3} -> n < 3
          [] OTHER -> n < 4

\* One of the array operations of project cannot be carried out: hstack of
\* arrays of different dimensions, a matrix product of shapes that do not
\* fit, or a third column that does not exist.
ArrayOperationFails ==
    \/ NDim(points3d) # 2
    \/ extrinsic.shape[2] # points3d.shape[2] + 1
    \/ extrinsic.shape[1] < 3
    \/ intrinsic.value.shape[2] # 3
    \/ intrinsic.value.shape[1] < 3

\* The file or an indexed key is missing.
LoadFails == container = NoFile \/ ~HasKeys({"points", "colors", "cameras", "images"})

\* An outcome that is an exception of a Python type, logged by the
\* function and raised to the caller, with no value in its place.
PropagatedAsTypedError(outcome, types) ==
    /\ outcome.status = "raised"
    /\ outcome.exc \in types
    /\ outcome.logged
    /\ "value" \notin DOMAIN outcome

\* C16: every failure inside create_intrinsic_matrix, project_points_to_image
\* and load_colmap_data reaches the caller as a typed error; none of the
\* three returns a normal value (a sentinel, a partial result or a default)
\* in place of an error.
C16_FailuresPropagate ==
    /\ (camera_info # None /\ ResolveCalled /\ UnpackFails) =>
          PropagatedAsTypedError(intrinsic, {"ValueError"})
    /\ (ProjectCalled /\ ArrayOperationFails) =>
          PropagatedAsTypedError(projection, {"ValueError", "IndexError"})
    /\ (LoadCalled /\ LoadFails) =>
          PropagatedAsTypedError(dataset, {"KeyError", "FileNotFoundError"})

\* A failed call of each kind: the resolver with a short vector, project
\* with a 4x3 extrinsic, the loader with no images key.
C16_Witness ==
    \/ camera_info # None /\ ResolveCalled /\ UnpackFails /\ camera_info.model = 1
                     /\ Len(camera_info.params) = 3 /\ pc = "failed"
    \/ ProjectCalled /\ ArrayOperationFails /\ extrinsic.shape = <<4, 3>>
                     /\ points3d = CloudPoints /\ pc = "failed"
    \/ LoadCalled /\ LoadFails /\ LacksKeys({"images"}) /\ pc = "load failed"

---------------------------------------------------------------------------
(* The round trip of the projection *)

\* Component r of R @ p + t for input point i, in exact arithmetic.
RECURSIVE ExactDotFrom(_, _, _)
ExactDotFrom(xs, ys, k) ==
    IF k > Len(xs) THEN 0 ELSE xs[k] * ys[k] + ExactDotFrom(xs, ys, k + 1)

ExactCam(i, r) ==
    ExactDotFrom(extrinsic.data[r], points3d.data[i] \o <<Num(1)>>, 1) \div Unit

\* The pixel project returned for input point i.
ReturnedPixel(i) == projection.value.image_coords.data[Rank(i)]

\* The intrinsic is [[fx, 0, cx], [0, fy, cy], [0, 0, 1]] with fx, fy > 0.
PositiveFocal ==
    LET K == intrinsic.value.data
    IN  /\ intrinsic.value = Canonical(K[1][1], K[2][2], K[1][3], K[2][3])
        /\ K[1][1] > 0 /\ K[2][2] > 0

\* The un-projected pixel coordinate (u - c) / f differs from the ratio
\* x / z by (u - c) / f - x / z = ((u - c) * z - f * x) / (f * z).
RoundTripError(u, f, c, x, z) == Abs((u - c) * z - f * x)

\* The rounding the projection can add to f * x / z + c, times f * z and
\* 2^MantBits: three operations (the two products summed, the sum, the
\* quotient) of relative error 2^-MantBits each, together less than
\* 4 * 2^-MantBits of the magnitudes |f * x / z| + |c|, and for the
\* quotient the half unit of the smallest exponent.
RoundTripTolerance(f, c, x, z) ==
    4 * (Abs(f * x) + Abs(c * z)) + Pow2(MantBits - 1) * z

\* No operation of the projection rounded for this coordinate.
RoundTripIsExact(f, c, x, z) ==
    LET s == FMul(f, x) + FMul(c, z)
    IN  /\ ExactProduct(f, x) /\ ExactProduct(c, z)
        /\ FAdd(FMul(f, x), FMul(c, z)) = s
        /\ FDiv(s, z) * z = s * Unit

\* Un-projecting u recovers x / z: within the rounding of the projection,
\* and exactly where the projection did not round.
Recovers(u, f, c, x, z) ==
    /\ Pow2(MantBits) * RoundTripError(u, f, c, x, z) <= RoundTripTolerance(f, c, x, z)
    /\ RoundTripIsExact(f, c, x, z) => RoundTripError(u, f, c, x, z) = 0

\* C17: for an extrinsic built from a rotation and a translation, an
\* intrinsic [[fx, 0, cx], [0, fy, cy], [0, 0, 1]] with fx, fy > 0 and a
\* point whose camera-frame depth Z is positive, un-projecting the pixel
\* (u, v) that project returned, ((u - cx) / fx, (v - cy) / fy), recovers
\* the ratios (X / Z, Y / Z) of R @ p + t, up to the rounding of the
\* floating-point operations of the projection.
C17_RoundTrip ==
    (ProjectCalled /\ ProjectReturned /\ PositiveFocal) =>
        \A i \in 1..NPoints :
            ExactCam(i, 3) > 0 =>
                LET K == intrinsic.value.data
                IN  /\ Rank(i) <= Len(projection.value.image_coords.data)
                    /\ Recovers(ReturnedPixel(i)[1], K[1][1], K[1][3],
                                ExactCam(i, 1), ExactCam(i, 3))
                    /\ Recovers(ReturnedPixel(i)[2], K[2][2], K[2][3],
                                ExactCam(i, 2), ExactCam(i, 3))

\* A projected point off the axis, seen through a translation, with
\* fx # fy, whose v coordinate was rounded and whose u coordinate was not.
C17_Witness ==
    /\ ProjectCalled /\ ProjectReturned /\ PositiveFocal
    /\ extrinsic.data[1][4] # 0
    /\ \E i \in 1..NPoints :
          LET K == intrinsic.value.data
          IN  /\ ExactCam(i, 3) > 0
              /\ ExactCam(i, 1) # 0 /\ ExactCam(i, 2) # 0
              /\ K[1][1] # K[2][2]
              /\ RoundTripError(ReturnedPixel(i)[1], K[1][1], K[1][3],
                                ExactCam(i, 1), ExactCam(i, 3)) = 0
              /\ RoundTripError(ReturnedPixel(i)[2], K[2][2], K[2][3],
                                ExactCam(i, 2), ExactCam(i, 3)) # 0

---------------------------------------------------------------------------
(* The consumers of a loaded dataset.  The heap holds the dataset's        *)
(* objects (its arrays, camera records and image records) under the names  *)
(* of the dataset's fields.  A consumer is given the heap and returns the  *)
(* heap as it leaves it together with what it built: an array it builds    *)
(* is a new object (a value of its result), an array it only keeps is a    *)
(* reference into the heap.                                                *)

\* A reference to the dataset array of a field.
Ref(field) == [ref |-> field]

\* The literal 0.7, 255.0 or 0.1: the float nearest to a / b.
Literal(a, b) == Round(a * Unit, b)

\* np.mean(a, axis=0): the rows are added up one after the other and the
\* sums divided by their number.
RECURSIVE ColumnSums(_, _, _)
ColumnSums(rows, i, acc) ==
    IF i > Len(rows) THEN acc
    ELSE ColumnSums(rows, i + 1, [j \in 1..Len(acc) |-> FAdd(acc[j], rows[i][j])])

Mean0(a) ==
    Array1([j \in 1..a.shape[2] |->
               FDiv(ColumnSums(a.data, 1, [k \in 1..a.shape[2] |-> 0])[j],
                    Num(a.shape[1]))])

\* f applied to every element of a two-dimensional array, with the column.
Elementwise(a, f(_, _)) ==
    Array2([i \in 1..a.shape[1] |-> [j \in 1..a.shape[2] |-> f(a.data[i][j], j)]],
           a.shape[2])

\* a - center, a new array
Centred(a, center) == Elementwise(a, LAMBDA x, j : FAdd(x, -center.data[j]))

\* np.ones_like(a) * 0.7
UniformGray(a) == Elementwise(a, LAMBDA x, j : FMul(Num(1), Literal(7, 10)))

\* np.max(a)
ArrayMax(a) ==
    CHOOSE m \in {a.data[i][j] : i \in 1..a.shape[1], j \in 1..a.shape[2]} :
        \A i \in 1..a.shape[1], j \in 1..a.shape[2] : a.data[i][j] <= m

\* set_point_cloud with the centring done in place: points -= center
set_point_cloud_in_place(h, points, colors) ==
    LET center == IF h[points].shape[1] > 0 THEN Mean0(h[points])
                  ELSE Array1(<<0, 0, 0>>)
    IN  [heap |-> [h EXCEPT ![points] =
                      IF h[points].shape[1] > 0 THEN Centred(h[points], center)
                      ELSE h[points]],
         result |-> [points |-> Ref(points), colors |-> Ref(colors),
                     center |-> center, n_points |-> h[points].shape[1]]]

\* OpenGLRenderer.set_point_cloud(points, colors): the points are centred
\* in a new array, the colors array is kept as it is; update_pointcloud_vbo
\* counts the points.
set_point_cloud(h, points, colors) ==
    LET center == IF h[points].shape[1] > 0 THEN Mean0(h[points])
                  ELSE Array1(<<0, 0, 0>>)
    IN  [heap |-> h,
         result |-> [points |-> IF h[points].shape[1] > 0
                                THEN Centred(h[points], center) ELSE Ref(points),
                     colors |-> Ref(colors),
                     center |-> center,
                     n_points |-> h[points].shape[1]]]

\* OpenGLRenderer.set_mesh(vertices, triangles, colors): colors that are
\* None become a new gray array, the vertices are centred in a new array;
\* update_mesh_vbo counts three indices per triangle.
set_mesh(h, vertices, triangles, colors) ==
    LET center == IF h[vertices].shape[1] > 0 THEN Mean0(h[vertices])
                  ELSE Array1(<<0, 0, 0>>)
    IN  [heap |-> h,
         result |-> [vertices |-> IF h[vertices].shape[1] > 0
                                  THEN Centred(h[vertices], center) ELSE Ref(vertices),
                     triangles |-> Ref(triangles),
                     colors |-> IF h[colors] = None THEN UniformGray(h[vertices])
                                ELSE Ref(colors),
                     center |-> center,
                     n_mesh_indices |->
                         IF h[vertices].shape[1] = 0 \/ h[triangles] = None THEN 0
                         ELSE 3 * h[triangles].shape[1]]]

\* visualization.create_mesh(vertices, triangles, vertex_colors): the mesh
\* holds copies; colours above 1.0 are divided by 255.0 in a new array;
\* without colours (or with a different number of them) the mesh is
\* painted [0.7, 0.7, 0.7].
create_mesh(h, vertices, triangles, vertex_colors) ==
    IF h[vertices] = None \/ h[triangles] = None
    THEN [heap |-> h, result |-> Propagated("ValueError", [text |-> "invalid mesh data"])]
    ELSE [heap |-> h,
          result |-> Returned(
              [vertices |-> h[vertices],
               triangles |-> h[triangles],
               vertex_colors |->
                   IF h[vertex_colors] # None
                      /\ h[vertex_colors].shape[1] = h[vertices].shape[1]
                   THEN IF ArrayMax(h[vertex_colors]) > Num(1)
                        THEN Elementwise(h[vertex_colors],
                                         LAMBDA x, j : FDiv(x, Literal(255, 1)))
                        ELSE h[vertex_colors]
                   ELSE UniformGray(h[vertices])])]

\* visualize_camera_poses(extrinsics, size=0.1): per extrinsic the camera
\* centre -R.T @ t and the end points of its three axes.
visualize_camera_poses(h, n) ==
    [heap |-> h,
     result |->
        [i \in 1..n |->
            LET E == h.images[i].extrinsic.data
                center == [j \in 1..3 |->
                              Dot([k \in 1..3 |-> -E[k][j]], [k \in 1..3 |-> E[k][4]])]
            IN  <<center>> \o
                [a \in 1..3 |->
                    [j \in 1..3 |-> FAdd(center[j], FMul(E[j][a], Literal(1, 10)))]]]]

\* create_intrinsic_matrix that uses up the record: the parameters it
\* unpacked are popped from params.
resolve_consuming(h, camera_id) ==
    [heap |-> [h EXCEPT !.cameras[camera_id].params =
                  SubSeq(@, 1, IF Len(@) > 3 THEN 3 ELSE Len(@))],
     result |-> create_intrinsic_matrix(h.cameras[camera_id])]

\* create_intrinsic_matrix(data['cameras'][camera_id]): the record is read.
resolve(h, camera_id) ==
    [heap |-> h, result |-> create_intrinsic_matrix(h.cameras[camera_id])]

\* project_points_to_image(data['points'], intrinsic, image['extrinsic']):
\* the arrays are read.
project(h, K, i) ==
    [heap |-> h,
     result |-> project_points_to_image(h.points, K, h.images[i].extrinsic)]

---------------------------------------------------------------------------
(* A session on a loaded dataset: the window shows the point cloud or the  *)
(* mesh (MainWindow.load_reconstruction_data) and the pipeline builds the  *)
(* mesh, the camera poses and the projection, in any order and any number  *)
(* of times.                                                               *)

\* Two points, so that their mean is neither of them.
SessionPoints ==
    Array2(<< <<Num(0), Num(0), Num(3)>>, <<Num(3), Num(1), Num(3)>> >>, 3)

SessionColors ==
    Array2(<< <<Num(1), Num(0), Num(0)>>, <<Num(0), Num(1), Num(0)>> >>, 3)

\* Three images: the first two share camera 1, the third has camera 2.
SessionImages ==
    [i \in 1..3 |-> [name |-> <<"image", i>>,
                     camera_id |-> IF i = 3 THEN 2 ELSE 1,
                     extrinsic |-> IF i = 1 THEN Identity4
                                   ELSE Extrinsic(Only({R \in Rotations : R[1][1] = 0}),
                                                  <<Num(1), 0, Num(-1)>>)]]

\* A camera for each way create_intrinsic_matrix ends: two models with
\* parameters that fit, a simple pinhole with one parameter too many and
\* an unknown model with too few.
SessionCameras ==
    ProjCameras \cup
    {[model |-> 0, params |-> <<Num(1), Num(3), Num(3), Num(1)>>],
     [model |-> 5, params |-> <<Num(1), Num(3), Num(3)>>]}

\* What save_reconstruction_data stores for a mesh: nothing, the vertices
\* alone, vertices and triangles, and these with vertex colours on the
\* 0..255 scale, within [0, 1], or too few for the vertices.
SessionMeshes ==
    {[vertices |-> Absent, triangles |-> Absent, vertex_colors |-> Absent],
     [vertices |-> MeshVertices, triangles |-> Absent, vertex_colors |-> Absent],
     [vertices |-> MeshVertices, triangles |-> MeshTriangles, vertex_colors |-> Absent]}
    \cup {[vertices |-> MeshVertices, triangles |-> MeshTriangles, vertex_colors |-> vc] :
             vc \in {MeshVertexColors, CloudColors,
                     Array2([i \in 1..3 |-> [j \in 1..3 |-> IF i = j THEN Num(1) ELSE 0]], 3)}}

SessionContainers ==
    {[k \in {KeyNames[i] : i \in 1..Len(KeyNames)} |->
        CASE k = "points" -> SessionPoints [] k = "colors" -> SessionColors
          [] k \in {"vertices", "triangles", "vertex_colors"} -> mesh[k]
          [] k = "cameras" ->
                Array0([id \in {1, 2} |-> IF id = 1 THEN c1 ELSE Only(ProjCameras)])
          [] k = "images" -> Array0(SessionImages)] :
     mesh \in SessionMeshes, c1 \in SessionCameras}

InitSession ==
    /\ pc = "session"
    /\ container \in SessionContainers
    /\ dataset = load_colmap_data(container)
    /\ heap = dataset.value
    /\ renderer = [point_cloud |-> None, mesh |-> None]
    /\ outputs = [mesh |-> None, camera_poses |-> None, projection |-> None]
    /\ resolved = [i \in 1..Len(dataset.value.images) |-> None]
    /\ pipeline = None
    /\ ToolsIdle
    /\ camera_info = None /\ points3d = None /\ extrinsic = None
    /\ intrinsic = None /\ projection = None
    /\ ThreadsIdle /\ NoLog

\* self.gl_widget.set_point_cloud(points, colors)
SetPointCloud ==
    /\ pc = "session"
    /\ Size(heap.points) > 0
    /\ \E call \in {set_point_cloud(heap, "points", "colors")} :
          /\ heap' = call.heap
          /\ renderer' = [renderer EXCEPT !.point_cloud = call.result]
    /\ UNCHANGED <<pc, coreVars, loaderVars, outputs, resolved, frames, log>>

\* self.gl_widget.set_mesh(vertices, triangles, colors)
SetMesh ==
    /\ pc = "session"
    /\ heap.vertices # None
    /\ \E call \in {set_mesh(heap, "vertices", "triangles", "vertex_colors")} :
          /\ heap' = call.heap
          /\ renderer' = [renderer EXCEPT !.mesh = call.result]
    /\ UNCHANGED <<pc, coreVars, loaderVars, outputs, resolved, frames, log>>

\* mesh = create_mesh(data['vertices'], data['triangles'],
\*                    data.get('vertex_colors', None))
CreateMesh ==
    /\ pc = "session"
    /\ heap.vertices # None
    /\ \E call \in {create_mesh(heap, "vertices", "triangles", "vertex_colors")} :
          /\ heap' = call.heap
          /\ outputs' = [outputs EXCEPT !.mesh = call.result]
    /\ UNCHANGED <<pc, coreVars, loaderVars, renderer, resolved, frames, log>>

\* camera_poses = visualize_camera_poses(extrinsics, size=0.1)
VisualizeCameraPoses ==
    /\ pc = "session"
    /\ \E call \in {visualize_camera_poses(heap, Len(heap.images))} :
          /\ heap' = call.heap
          /\ outputs' = [outputs EXCEPT !.camera_poses = call.result]
    /\ UNCHANGED <<pc, coreVars, loaderVars, renderer, resolved, frames, log>>

\* camera_info = data['cameras'][camera_id]; intrinsic =
\* create_intrinsic_matrix(camera_info); points2d, valid =
\* project_points_to_image(data['points'], intrinsic, extrinsic), for
\* image i
ProjectImage(i) ==
    /\ pc = "session"
    /\ heap.images[i].camera_id \in DOMAIN heap.cameras
    /\ \E K \in {resolve(heap, heap.images[i].camera_id)} :
          IF K.result.status = "raised"
          THEN /\ Len(log) < MaxLog
               /\ heap' = K.heap
               /\ outputs' = [outputs EXCEPT !.projection = K.result]
               /\ log' = log \o LoggedBy("creating the intrinsic matrix failed", K.result)
          ELSE \E call \in {project(K.heap, K.result.value, i)} :
                  /\ call.result.status = "raised" => Len(log) < MaxLog
                  /\ heap' = call.heap
                  /\ outputs' = [outputs EXCEPT !.projection = call.result]
                  /\ log' = log \o LoggedBy("point projection failed", call.result)
    /\ UNCHANGED <<pc, coreVars, loaderVars, renderer, resolved, frames>>

NextSession ==
    \/ SetPointCloud
    \/ SetMesh
    \/ CreateMesh
    \/ VisualizeCameraPoses
    \/ \E i \in 1..Len(heap.images) : ProjectImage(i)

SpecSession == InitSession /\ [][NextSession]_vars

\* intrinsic = create_intrinsic_matrix(data['cameras'][camera_id]) for the
\* camera of image i, for the images of a dataset in any order.
ResolveImage(i) ==
    /\ pc = "session"
    /\ heap.images[i].camera_id \in DOMAIN heap.cameras
    /\ \E call \in {resolve(heap, heap.images[i].camera_id)} :
          /\ call.result.status = "raised" => Len(log) < MaxLog
          /\ heap' = call.heap
          /\ resolved' = [resolved EXCEPT ![i] = call.result]
          /\ log' = log \o LoggedBy("creating the intrinsic matrix failed", call.result)
    /\ UNCHANGED <<pc, coreVars, loaderVars, renderer, outputs, frames>>

NextResolve == \E i \in 1..Len(heap.images) : ResolveImage(i)

SpecResolve == InitSession /\ [][NextResolve]_vars

---------------------------------------------------------------------------
(* Properties of the consumers of a loaded dataset *)

\* The camera id of image i of the loaded dataset.
CameraOf(i) == dataset.value.images[i].camera_id

\* create_intrinsic_matrix has been called for image i.
ImageResolved(i) == resolved[i] # None

C19_DatasetReadOnly ==
    pc = "session" =>
        /\ heap = dataset.value
        /\ renderer.point_cloud # None =>
              /\ renderer.point_cloud.points =
                    Centred(dataset.value.points, renderer.point_cloud.center)
              /\ renderer.point_cloud.colors = Ref("colors")

\* Every consumer has run: the window holds the centred cloud and the
\* centred mesh, the pipeline's mesh has colours that were divided by
\* 255.0, the camera poses are built and a projection has returned.
C19_Witness ==
    /\ pc = "session"
    /\ renderer.point_cloud # None
    /\ renderer.point_cloud.points # heap.points
    /\ renderer.mesh # None
    /\ renderer.mesh.vertices # heap.vertices
    /\ outputs.mesh # None
    /\ outputs.mesh.status = "returned"
    /\ heap.vertex_colors # None
    /\ ArrayMax(heap.vertex_colors) > Num(1)
    /\ outputs.mesh.value.vertex_colors # heap.vertex_colors
    /\ outputs.camera_poses # None
    /\ outputs.projection # None
    /\ outputs.projection.status = "returned"

---------------------------------------------------------------------------
(* Concurrent calls.  Each thread runs one call of create_intrinsic_matrix *)
(* or project_points_to_image to its end, a statement at a time; the       *)
(* threads' statements interleave in any order.  A thread's locals are its *)
(* own frame; the arguments are read, never assigned; logging.error adds   *)
(* a record to the log of the process, which all threads share.  Beside    *)
(* its call a thread carries what the call gives when nothing else runs    *)
(* (alone) and whether another call was under way while it ran             *)
(* (overlapped).                                                           *)

Threads == 1..NThreads

\* The calls a thread makes: a camera that resolves and one that does not,
\* a projection that returns and one that fails at the intrinsic.
ThreadCalls ==
    {[fn |-> "create_intrinsic_matrix", camera_info |-> c] :
        c \in {c \in SessionCameras : c.model \in {4, 5}}}
    \cup
    {[fn |-> "project_points_to_image", points3d |-> SessionPoints,
      intrinsic |-> call.K, extrinsic |-> call.E] :
        call \in {[K |-> Array2(IntrinsicRows, 3), E |-> Identity4],
                  [K |-> Only({K \in IntrinsicsOfAnyShape : K.shape = <<3, 2>>}),
                   E |-> SessionImages[2].extrinsic]}}

\* What a call returns or raises when it runs alone.
Solo(call) ==
    IF call.fn = "create_intrinsic_matrix"
    THEN create_intrinsic_matrix(call.camera_info)
    ELSE project_points_to_image(call.points3d, call.intrinsic, call.extrinsic)

\* The frame of a call before its first statement.
NoLocals ==
    [model_id |-> None, params |-> None, points_homo |-> None,
     camera_coords |-> None, valid |-> None, image_coords |-> None, e |-> None]

\* The frame of thread t with one frame per function: the locals kept in
\* storage of the function, shared by the threads that run it.
LocalOfFunction(t) ==
    CHOOSE u \in Threads :
        /\ frames.call[u].fn = frames.call[t].fn
        /\ \A w \in Threads : frames.call[w].fn = frames.call[t].fn => u <= w

\* The frame of thread t: a call's locals are its own.
Local(t) == t

\* logging.error(...): the handler's lock makes the write of a record one
\* step.
Emit(records, record) == records \o record

\* Some other thread is inside its call.
Overlaps(t) == \E u \in Threads \ {t} : frames.pc[u] \notin {"call", "done"}

\* Thread t goes on to position next with the locals that changed.
Goes(t, next, changed) ==
    frames' = [frames EXCEPT
                  !.pc[t] = next,
                  !.locals[Local(t)] = [n \in DOMAIN @ |->
                      IF n \in DOMAIN changed THEN changed[n] ELSE @[n]],
                  !.overlapped[t] = @ \/ Overlaps(t)]

\* Thread t leaves its call with an outcome.
Leaves(t, outcome) ==
    frames' = [frames EXCEPT !.pc[t] = "done", !.outcome[t] = outcome,
                             !.overlapped[t] = @ \/ Overlaps(t)]

At(t, fn, position) ==
    /\ pc = "threads"
    /\ frames.call[t].fn = fn
    /\ frames.pc[t] = position

InitThreads ==
    /\ pc = "threads"
    /\ frames \in {[call |-> c,
                    alone |-> [t \in Threads |-> Solo(c[t])],
                    pc |-> [t \in Threads |-> "call"],
                    locals |-> [t \in Threads |-> NoLocals],
                    outcome |-> [t \in Threads |-> None],
                    overlapped |-> [t \in Threads |-> FALSE]] :
                   c \in [Threads -> ThreadCalls]}
    /\ camera_info = None /\ points3d = None /\ extrinsic = None
    /\ intrinsic = None /\ projection = None
    /\ LoaderIdle /\ SessionIdle /\ NoLog

\* model_id = camera_info['model']; params = camera_info['params']
ReadCameraInfo(t) ==
    /\ At(t, "create_intrinsic_matrix", "call")
    /\ Goes(t, "try", [model_id |-> frames.call[t].camera_info.model,
                       params |-> frames.call[t].camera_info.params])
    /\ UNCHANGED <<pc, coreVars, loaderVars, sessionVars, log>>

\* the try block: the branch of the model unpacks the parameters and
\* returns the matrix, or raises
BuildMatrix(t) ==
    /\ At(t, "create_intrinsic_matrix", "try")
    /\ \E r \in {create_intrinsic_matrix(
                    [model |-> frames.locals[Local(t)].model_id,
                     params |-> frames.locals[Local(t)].params])} :
          IF r.status = "returned" THEN Leaves(t, r)
          ELSE Goes(t, "except", [e |-> r])
    /\ UNCHANGED <<pc, coreVars, loaderVars, sessionVars, log>>

\* points_homo = np.hstack([points3d, np.ones((points3d.shape[0], 1))])
StackOnes(t) ==
    /\ At(t, "project_points_to_image", "call")
    /\ \E points \in {frames.call[t].points3d} :
          IF ~HStackOk(points, Ones(points.shape[1]))
          THEN Goes(t, "except",
                    [e |-> Raised("ValueError", [text |-> "hstack: dimensions differ"])])
          ELSE Goes(t, "extrinsic", [points_homo |-> PointsHomo(points)])
    /\ UNCHANGED <<pc, coreVars, loaderVars, sessionVars, log>>

\* camera_coords = (extrinsic @ points_homo.T).T
ApplyExtrinsic(t) ==
    /\ At(t, "project_points_to_image", "extrinsic")
    /\ \E E \in {frames.call[t].extrinsic},
          points_homo \in {frames.locals[Local(t)].points_homo} :
          IF ~MatMulOk(E, Transpose(points_homo))
          THEN Goes(t, "except",
                    [e |-> Raised("ValueError", [text |-> "matmul: extrinsic"])])
          ELSE Goes(t, "filter", [camera_coords |-> CameraCoords(E, points_homo)])
    /\ UNCHANGED <<pc, coreVars, loaderVars, sessionVars, log>>

\* valid = camera_coords[:, 2] > 0; camera_coords = camera_coords[valid]
FilterValid(t) ==
    /\ At(t, "project_points_to_image", "filter")
    /\ \E camera_coords \in {frames.locals[Local(t)].camera_coords} :
          IF camera_coords.shape[2] < 3
          THEN Goes(t, "except",
                    [e |-> Raised("IndexError", [text |-> "camera_coords[:, 2]"])])
          ELSE \E valid \in {ValidMask(camera_coords)} :
                  Goes(t, "intrinsic",
                       [valid |-> valid,
                        camera_coords |-> MaskRows(camera_coords, valid)])
    /\ UNCHANGED <<pc, coreVars, loaderVars, sessionVars, log>>

\* image_coords = (intrinsic @ camera_coords[:, :3].T).T
ApplyIntrinsic(t) ==
    /\ At(t, "project_points_to_image", "intrinsic")
    /\ \E K \in {frames.call[t].intrinsic},
          front \in {frames.locals[Local(t)].camera_coords} :
          IF ~MatMulOk(K, Transpose(Columns(front, 3)))
          THEN Goes(t, "except",
                    [e |-> Raised("ValueError", [text |-> "matmul: intrinsic"])])
          ELSE Goes(t, "divide", [image_coords |-> ImageCoords(K, front)])
    /\ UNCHANGED <<pc, coreVars, loaderVars, sessionVars, log>>

\* image_coords = image_coords[:, :2] / image_coords[:, 2, None]
Divide(t) ==
    /\ At(t, "project_points_to_image", "divide")
    /\ \E image_coords \in {frames.locals[Local(t)].image_coords} :
          IF image_coords.shape[2] < 3
          THEN Goes(t, "except",
                    [e |-> Raised("IndexError", [text |-> "image_coords[:, 2]"])])
          ELSE Goes(t, "return", [image_coords |-> PerspectiveDivide(image_coords)])
    /\ UNCHANGED <<pc, coreVars, loaderVars, sessionVars, log>>

\* return image_coords, valid
ReturnPair(t) ==
    /\ At(t, "project_points_to_image", "return")
    /\ Leaves(t, Returned([image_coords |-> frames.locals[Local(t)].image_coords,
                           valid |-> frames.locals[Local(t)].valid]))
    /\ UNCHANGED <<pc, coreVars, loaderVars, sessionVars, log>>

\* What the except clause of the function of thread t logs for e.
ErrorRecord(fn, e) ==
    LoggedBy(IF fn = "create_intrinsic_matrix"
             THEN "creating the intrinsic matrix failed"
             ELSE "point projection failed", e)

\* except ... as e: logging.error(f"...: {str(e)}")
LogError(t) ==
    /\ pc = "threads"
    /\ frames.pc[t] = "except"
    /\ log' = Emit(log, ErrorRecord(frames.call[t].fn, frames.locals[Local(t)].e))
    /\ Goes(t, "raise", <<>>)
    /\ UNCHANGED <<pc, coreVars, loaderVars, sessionVars>>

\* raise
Reraise(t) ==
    /\ pc = "threads"
    /\ frames.pc[t] = "raise"
    /\ Leaves(t, frames.locals[Local(t)].e)
    /\ UNCHANGED <<pc, coreVars, loaderVars, sessionVars, log>>

NextThreads ==
    \E t \in Threads :
        \/ ReadCameraInfo(t)
        \/ BuildMatrix(t)
        \/ StackOnes(t)
        \/ ApplyExtrinsic(t)
        \/ FilterValid(t)
        \/ ApplyIntrinsic(t)
        \/ Divide(t)
        \/ ReturnPair(t)
        \/ LogError(t)
        \/ Reraise(t)

SpecThreads == InitThreads /\ [][NextThreads]_vars

---------------------------------------------------------------------------
(* Properties of concurrent calls *)

\* The threads whose call has left.
Done == {t \in Threads : frames.pc[t] = "done"}

\* The threads whose call has logged its error.
HasLogged == {t \in Threads : frames.pc[t] \in {"raise", "done"}
                              /\ frames.alone[t].status = "raised"}

\* Under every interleaving each call that has left returned or raised
\* what it returns or raises when run alone.
SameAsAlone ==
    \A t \in Done : frames.outcome[t] = frames.alone[t]

---------------------------------------------------------------------------
(* The exporters.  save_reconstruction_data reads the dense point cloud,   *)
(* the mesh and the sparse model of a reconstruction workspace and writes  *)
(* them into one .npz container, the file load_colmap_data reads.          *)

\* A sparse model directory that pycolmap cannot read.
Corrupt == [status |-> "corrupt"]

\* An array of n rows without a row: np.asarray of an empty Open3D vector.
NoRows == Array2(<<>>, 3)

\* point_cloud.has_points()
HasPoints(cloud) == cloud.points.shape[1] > 0

\* point_cloud.has_colors(): as many colours as points, and points.
HasColors(cloud) ==
    HasPoints(cloud) /\ cloud.colors.shape[1] = cloud.points.shape[1]

\* mesh.has_vertices(), mesh.has_triangles(), mesh.has_vertex_colors()
HasVertices(mesh) == mesh.vertices.shape[1] > 0

HasTriangles(mesh) == HasVertices(mesh) /\ mesh.triangles.shape[1] > 0

HasVertexColors(mesh) ==
    HasVertices(mesh) /\ mesh.vertex_colors.shape[1] = mesh.vertices.shape[1]

\* os.listdir(sparse_dir) filtered to the numbered directories
ModelDirs(sparse) == DOMAIN sparse

\* max(model_dirs, key=int)
LatestModel(sparse) ==
    CHOOSE m \in ModelDirs(sparse) : \A n \in ModelDirs(sparse) : n <= m

\* reconstruction.parse_colmap_data(sparse_dir): the cameras and images of
\* the model directory with the greatest number; without a model directory
\* a FileNotFoundError, with one that pycolmap cannot read its error,
\* logged.
parse_colmap_data(sparse) ==
    IF ModelDirs(sparse) = {}
    THEN Propagated("FileNotFoundError", [text |-> "no reconstruction model found"])
    ELSE IF sparse[LatestModel(sparse)] = Corrupt
    THEN Raised("pycolmap.Error", [text |-> "loading the reconstruction model failed"])
    ELSE Returned([cameras |-> sparse[LatestModel(sparse)].cameras,
                   images |-> sparse[LatestModel(sparse)].images])

\* np.savez_compressed(path, **save_data): the keys given are stored, a
\* dict as a 0-d object array.
Savez(save_data) ==
    [k \in {KeyNames[i] : i \in 1..Len(KeyNames)} |->
        IF k \in DOMAIN save_data THEN save_data[k] ELSE Absent]

\* The entries of save_data that are there: name :> value when present.
Entry(present, name, value) ==
    IF present THEN [k \in {name} |-> value] ELSE [k \in {} |-> None]

\* reconstruction.save_reconstruction_data(dense_dir, sparse_dir,
\* results_path) on the workspace w: what it returns, the file it leaves at
\* results_path and what it logs.
save_reconstruction_data(w) ==
    LET parsed == parse_colmap_data(w.sparse)
        meta == IF parsed.status = "returned" THEN parsed.value
                ELSE [cameras |-> [id \in {} |-> None], images |-> <<>>]
        cloud == w.fused
        mesh == w.meshed
        save_data ==
            [k \in {"cameras"} |-> Array0(meta.cameras)]
            @@ [k \in {"images"} |-> Array0(meta.images)]
            @@ Entry(cloud # NoFile /\ HasPoints(cloud), "points", cloud.points)
            @@ Entry(cloud # NoFile /\ HasColors(cloud), "colors", cloud.colors)
            @@ Entry(mesh # NoFile /\ HasVertices(mesh), "vertices", mesh.vertices)
            @@ Entry(mesh # NoFile /\ HasTriangles(mesh), "triangles", mesh.triangles)
            @@ Entry(mesh # NoFile /\ HasVertexColors(mesh), "vertex_colors",
                     mesh.vertex_colors)
        before ==
            (IF cloud = NoFile
             THEN <<LogRecord("warning", "point cloud file does not exist", "fused.ply")>>
             ELSE <<>>)
            \o LoggedBy("loading the reconstruction model failed", parsed)
            \o (IF parsed.status = "raised"
                THEN <<LogRecord("error", "parsing the camera parameters failed",
                                 parsed.exc)>>
                ELSE <<>>)
    IN  IF Len(w.results_path) < 2
        THEN [outcome |-> Returned(FALSE), file |-> NoFile,
              log |-> before \o <<LogRecord("error", "saving the reconstruction failed",
                                            "FileNotFoundError")>>]
        ELSE [outcome |-> Returned(TRUE), file |-> Savez(save_data), log |-> before]

\* task1_colmap.parse_colmap_data(sparse_dir): the same without a logger;
\* its errors leave it as they are.
task1_parse_colmap_data(sparse) ==
    IF ModelDirs(sparse) = {}
    THEN Propagated("FileNotFoundError", [text |-> "no reconstruction model found"])
    ELSE IF sparse[LatestModel(sparse)] = Corrupt
    THEN Propagated("pycolmap.Error", [text |-> "loading the reconstruction model failed"])
    ELSE Returned([cameras |-> sparse[LatestModel(sparse)].cameras,
                   images |-> sparse[LatestModel(sparse)].images])

\* task1_colmap.save_reconstruction_data(dense_dir, sparse_dir,
\* output_path): points and colors are always stored, as np.array([]) when
\* the cloud has none; it returns the cloud and the mesh or raises.
task1_save_reconstruction_data(w) ==
    IF w.fused = NoFile
    THEN [outcome |-> Propagated("FileNotFoundError",
                                 [text |-> "dense point cloud file does not exist"]),
          file |-> NoFile, log |-> <<>>]
    ELSE LET parsed == task1_parse_colmap_data(w.sparse)
             cloud == w.fused
             mesh == w.meshed
             save_data ==
                 [k \in {"points"} |->
                     IF HasPoints(cloud) THEN cloud.points ELSE EmptyArray1]
                 @@ [k \in {"colors"} |->
                        IF HasColors(cloud) THEN cloud.colors ELSE EmptyArray1]
                 @@ [k \in {"cameras"} |-> Array0(parsed.value.cameras)]
                 @@ [k \in {"images"} |-> Array0(parsed.value.images)]
                 @@ Entry(mesh # NoFile /\ HasVertices(mesh), "vertices", mesh.vertices)
                 @@ Entry(mesh # NoFile /\ HasTriangles(mesh), "triangles",
                          mesh.triangles)
         IN  IF parsed.status = "raised"
             THEN [outcome |-> parsed, file |-> NoFile, log |-> <<>>]
             ELSE [outcome |-> Returned([point_cloud |-> cloud, mesh |-> mesh]),
                   file |-> Savez(save_data), log |-> <<>>]

---------------------------------------------------------------------------
(* Export and load: a workspace is exported by one of the two exporters    *)
(* and the file is loaded.                                                 *)

\* The fused point cloud: no file, a file without points, points with
\* their colours, points without colours.
FusedClouds ==
    {NoFile,
     [points |-> NoRows, colors |-> NoRows],
     [points |-> SessionPoints, colors |-> SessionColors],
     [points |-> SessionPoints, colors |-> NoRows]}

\* The mesh: no file, a file without vertices, vertices with triangles,
\* and these with vertex colours.
PoissonMeshes ==
    {NoFile,
     [vertices |-> NoRows, triangles |-> NoRows, vertex_colors |-> NoRows],
     [vertices |-> MeshVertices, triangles |-> MeshTriangles, vertex_colors |-> NoRows],
     [vertices |-> MeshVertices, triangles |-> MeshTriangles,
      vertex_colors |-> MeshVertexColors]}

\* The sparse model with the cameras c and the images of SessionImages.
SparseModel(c) ==
    [cameras |-> [id \in {1, 2} |-> c], images |-> SessionImages]

\* The sparse directory: empty, one model, one model that cannot be read.
SparseDirs ==
    {[m \in {} |-> None],
     [m \in {0} |-> SparseModel(Only(ProjCameras))],
     [m \in {0} |-> Corrupt]}

\* results_path with a directory and without one
ResultsPaths == {<<"results", "reconstruction_data.npz">>, <<"reconstruction_data.npz">>}

Workspaces ==
    {[fused |-> f, meshed |-> m, sparse |-> s, results_path |-> p] :
        f \in FusedClouds, m \in PoissonMeshes, s \in SparseDirs, p \in ResultsPaths}

InitExport ==
    /\ pc = "workspace"
    /\ disk \in Workspaces
    /\ colmap = None /\ window = None
    /\ export = None
    /\ container = NoFile
    /\ dataset = None
    /\ pipeline = None
    /\ camera_info = None /\ points3d = None /\ extrinsic = None
    /\ intrinsic = None /\ projection = None
    /\ SessionIdle /\ ThreadsIdle /\ NoLog

\* Has the exporter left a file at the path?
Exported(run) == run.file # NoFile

\* reconstruction.save_reconstruction_data(dense_dir, sparse_dir, results_path)
SaveReconstructionData ==
    /\ pc = "workspace"
    /\ \E run \in {save_reconstruction_data(disk)} :
          /\ export' = [by |-> "reconstruction", outcome |-> run.outcome]
          /\ container' = run.file
          /\ log' = log \o run.log
          /\ pc' = IF Exported(run) THEN "start" ELSE "not exported"
    /\ UNCHANGED <<disk, colmap, window, dataset, pipeline, coreVars, sessionVars, frames>>

\* task1_colmap.save_reconstruction_data(dense_dir, sparse_dir, output_path)
Task1SaveReconstructionData ==
    /\ pc = "workspace"
    /\ \E run \in {task1_save_reconstruction_data(disk)} :
          /\ export' = [by |-> "task1_colmap", outcome |-> run.outcome]
          /\ container' = run.file
          /\ log' = log \o run.log
          /\ pc' = IF Exported(run) THEN "start" ELSE "not exported"
    /\ UNCHANGED <<disk, colmap, window, dataset, pipeline, coreVars, sessionVars, frames>>

NextExport ==
    \/ SaveReconstructionData
    \/ Task1SaveReconstructionData
    \/ (export # None /\ LoadColmapData)

SpecExport == InitExport /\ [][NextExport]_vars

---------------------------------------------------------------------------
(* Properties of export and load *)

\* The file was written by an exporter and load_colmap_data returned it.
ExportLoaded == export # None /\ pc = "loaded"

\* len(a) of an array: its first dimension.
Length(a) == a.shape[1]

\* C21: in every dataset the loader returns for a container written by one
\* of the repository's exporters, colors is as long as points.
C21_ColorsParallelToPoints ==
    ExportLoaded =>
        Length(dataset.value.colors) = Length(dataset.value.points)

\* reconstruction.save_reconstruction_data returned True and the file it
\* wrote has been given to load_colmap_data.
SavedThenLoaded ==
    /\ export # None
    /\ export.by = "reconstruction"
    /\ export.outcome = Returned(TRUE)
    /\ pc \in {"loaded", "load failed"}

\* C24: whenever reconstruction.save_reconstruction_data returns True, the
\* file it wrote is loaded by load_colmap_data without error, whether or
\* not the fused cloud existed, had colours or the sparse model could be
\* parsed.
C24_SavedFileLoads ==
    SavedThenLoaded => dataset.status = "returned"

---------------------------------------------------------------------------
(* run_reconstruction_pipeline: run_colmap_pipeline starts the external    *)
(* COLMAP stages one after the other, each with run_colmap_command, and    *)
(* save_reconstruction_data exports what they left in the workspace.       *)

\* The stages in the order of run_colmap_pipeline.
Stages ==
    <<"feature_extractor", "exhaustive_matcher", "mapper", "image_undistorter",
      "patch_match_stereo", "stereo_fusion", "poisson_mesher">>

\* How a stage's process ends: exit code 0, another exit code, or Popen
\* raises.
ProcessEnds == {"exit 0", "exit 1", "exception"}

\* run_colmap_command's success flag.
Succeeded(ended) == ended = "exit 0"

\* if not success: return None, with the check left out.
GoesOnRegardless(success) == TRUE

\* if not success: return None
GoesOn(success) == success

\* The sparse directory the mapper leaves: a model directory per connected
\* component of the images, numbered from 0; model 0 has the first camera
\* of ProjCameras, the others the second.
MapperOutput(n) ==
    [m \in 0..(n - 1) |->
        SparseModel(IF m = 0 THEN Only({c \in ProjCameras : c.model = 1})
                    ELSE Only({c \in ProjCameras : c.model # 1}))]

\* The workspace before the first stage.
EmptyWorkspace ==
    [sparse |-> [m \in {} |-> None], dense_input |-> None, fused |-> NoFile,
     meshed |-> NoFile, timing |-> FALSE,
     results_path |-> <<"results", "reconstruction_data.npz">>]

\* What stage k leaves in the workspace w when its process exits with 0.
\* The undistorter reads the model in sparse/0.
StageWrites(k, w) ==
    CASE Stages[k] = "mapper" ->
            {[w EXCEPT !.sparse = MapperOutput(n)] : n \in 1..MaxModels}
      [] Stages[k] = "image_undistorter" ->
            {[w EXCEPT !.dense_input = w.sparse[0]]}
      [] Stages[k] = "stereo_fusion" ->
            {[w EXCEPT !.fused = f] : f \in FusedClouds \ {NoFile}}
      [] Stages[k] = "poisson_mesher" ->
            {[w EXCEPT !.meshed = m] : m \in PoissonMeshes \ {NoFile}}
      [] OTHER -> {w}

InitColmap ==
    /\ pc = "colmap"
    /\ disk = EmptyWorkspace
    /\ colmap = [started |-> <<>>, reported |-> <<>>, result |-> None]
    /\ export = None /\ window = None
    /\ container = NoFile
    /\ dataset = None
    /\ pipeline = None
    /\ camera_info = None /\ points3d = None /\ extrinsic = None
    /\ intrinsic = None /\ projection = None
    /\ SessionIdle /\ ThreadsIdle /\ NoLog

\* success, t = run_colmap_command([...], description); step_times[...] = t;
\* if not success: return None.  After the last stage the timing file is
\* written and dense_dir returned.
RunColmapCommand ==
    /\ pc = "colmap"
    /\ Len(colmap.started) < Len(Stages)
    /\ \E k \in {Len(colmap.started) + 1}, ended \in ProcessEnds :
          /\ \E w \in (IF Succeeded(ended) THEN StageWrites(k, disk) ELSE {disk}) :
                disk' = IF GoesOn(Succeeded(ended)) /\ k = Len(Stages)
                        THEN [w EXCEPT !.timing = TRUE] ELSE w
          /\ colmap' =
                [started |-> Append(colmap.started, Stages[k]),
                 reported |-> Append(colmap.reported, Succeeded(ended)),
                 result |-> IF ~GoesOn(Succeeded(ended)) THEN Returned("None")
                            ELSE IF k = Len(Stages) THEN Returned("dense")
                            ELSE None]
          /\ log' = log \o (IF Succeeded(ended) THEN <<>>
                            ELSE <<LogRecord("error",
                                             IF ended = "exception" THEN "unknown error"
                                             ELSE "failed with error code",
                                             Stages[k])>>)
          /\ pc' = IF ~GoesOn(Succeeded(ended)) THEN "colmap failed"
                   ELSE IF k = Len(Stages) THEN "workspace"
                   ELSE "colmap"
    /\ UNCHANGED <<export, window, container, dataset, pipeline, coreVars,
                   sessionVars, frames>>

NextColmap ==
    \/ RunColmapCommand
    \/ SaveReconstructionData

SpecColmap == InitColmap /\ [][NextColmap]_vars

---------------------------------------------------------------------------
(* Properties of the reconstruction run *)

\* The first stage that reported failure, 0 when none did.
FirstFailure ==
    IF \A k \in 1..Len(colmap.reported) : colmap.reported[k] THEN 0
    ELSE CHOOSE k \in 1..Len(colmap.reported) :
            /\ ~colmap.reported[k]
            /\ \A j \in 1..(k - 1) : colmap.reported[j]

\* C22: run_colmap_pipeline starts the seven stages strictly in order, a
\* stage only after every earlier stage reported success; at the first
\* stage that fails it returns None, starts no later stage and writes no
\* timing file; it returns the dense directory only when all seven stages
\* succeeded.
C22_StagesInOrder ==
    colmap # None =>
        /\ colmap.started = SubSeq(Stages, 1, Len(colmap.started))
        /\ \A k \in 1..Len(colmap.started) :
              \A j \in 1..(k - 1) : colmap.reported[j]
        /\ FirstFailure # 0 =>
              /\ colmap.result = Returned("None")
              /\ Len(colmap.started) = FirstFailure
              /\ ~disk.timing
        /\ colmap.result = Returned("dense") =>
              /\ Len(colmap.started) = Len(Stages)
              /\ FirstFailure = 0
        /\ (FirstFailure = 0 /\ Len(colmap.started) = Len(Stages)) =>
              (colmap.result = Returned("dense") /\ disk.timing)

\* A run that failed at the fourth stage after three stages succeeded.
C22_Witness ==
    /\ colmap # None
    /\ colmap.started = SubSeq(Stages, 1, 4)
    /\ FirstFailure = 4
    /\ colmap.result = Returned("None")

\* The run has exported the workspace.
RunExported ==
    /\ colmap # None
    /\ export # None
    /\ export.outcome = Returned(TRUE)

\* C25: the cameras and the image poses that save_reconstruction_data
\* stores are those of the sparse model the dense stages were given
\* (sparse/0), however many model directories the mapper left.
C25_ExportedModelIsDenseModel ==
    RunExported =>
        /\ Item(container.cameras) = disk.dense_input.cameras
        /\ Item(container.images) = disk.dense_input.images

---------------------------------------------------------------------------
(* Properties of run_visualization_pipeline on what the loader returns *)

\* C23: for every dataset load_colmap_data loads, run_visualization_pipeline
\* returns True and does not raise, whatever fails in the point-cloud, the
\* mesh or the projection step and however many images there are; it
\* returns False only when the load fails.
C23_PipelineNeverRaises ==
    PipelineRan =>
        /\ pipeline.status = "returned"
        /\ pipeline.value = (load_colmap_data(container).status = "returned")

---------------------------------------------------------------------------
(* gui.OpenGLRenderer.  A method is given the renderer's fields (self) and *)
(* its arguments and returns the fields as it leaves them and the          *)
(* exception it raised, if any.  A vertex buffer is held with the data it  *)
(* was allocated with.                                                     *)

\* A QOpenGLVertexArrayObject that has been created.
Created == [status |-> "created"]

\* A QOpenGLBuffer allocated with vertex_data.
Buffer(vertex_data) == [buffer |-> vertex_data]

\* The view is held in hundredths, which holds every constant of the view
\* code exactly: camera_distance 5.0, the clamp of wheelEvent to
\* [0.1, 50.0], rotation_sensitivity 0.5, translation_sensitivity 0.01.
InitialDistance == 500

MinDistance == 10

MaxDistance == 5000

RotationSensitivity == 50

TranslationSensitivity == 1

\* delta * zoom_sensitivity * -0.1, in hundredths.
ZoomStep(delta) == -delta

\* The view of __init__ and reset_view: camera_distance 5.0, no rotation,
\* no translation.
InitialView ==
    [camera_distance |-> InitialDistance, camera_rotation_x |-> 0,
     camera_rotation_y |-> 0, camera_translation |-> <<0, 0, 0>>]

ViewFields == DOMAIN InitialView

\* OpenGLRenderer.__init__
NewRenderer ==
    [point_cloud |-> None, mesh |-> None, camera_poses |-> None,
     camera_distance |-> InitialView.camera_distance,
     camera_rotation_x |-> InitialView.camera_rotation_x,
     camera_rotation_y |-> InitialView.camera_rotation_y,
     camera_translation |-> InitialView.camera_translation,
     last_mouse_pos |-> None,
     vao_point |-> None, vbo_point |-> None, n_points |-> 0,
     vao_mesh |-> None, vbo_mesh |-> None, n_mesh_indices |-> 0,
     vao_cameras |-> None, vbo_cameras |-> None, n_camera_vertices |-> 0]

\* A method that returned, and one that raised.
Completed(self) == [self |-> self, raised |-> None]

Failed(self, exc) == [self |-> self, raised |-> Propagated(exc, [text |-> exc])]

\* len(a) of an array, or of None (which has none: the callers test for it).
Len0(a) == IF a = None \/ a.shape = <<>> THEN 0 ELSE a.shape[1]

\* The centre of an array of rows: np.mean(a, axis=0), [0, 0, 0] when empty.
CenterOf(a) == IF Len0(a) > 0 THEN Mean0(a) ELSE Array1(<<0, 0, 0>>)

\* a - center when a has rows, a itself otherwise.
CentredRows(a) == IF Len0(a) > 0 THEN Centred(a, Mean0(a)) ELSE a

\* OpenGLRenderer.update_pointcloud_vbo(points, colors): the old buffer is
\* destroyed; np.hstack raises when colors does not fit points, before
\* n_points is assigned.
update_pointcloud_vbo(self, points, colors) ==
    LET cleared == [self EXCEPT !.vbo_point = None, !.vao_point = None]
    IN  IF Len0(points) = 0 THEN Completed([cleared EXCEPT !.n_points = 0])
        ELSE IF colors = None \/ ~HStackOk(points, colors)
        THEN Failed(cleared, "ValueError")
        ELSE Completed([cleared EXCEPT !.n_points = Len0(points),
                                  !.vao_point = Created,
                                  !.vbo_point = Buffer(HStack(points, colors))])

\* OpenGLRenderer.set_point_cloud(points, colors)
OpenGLRenderer_set_point_cloud(self, points, colors) ==
    update_pointcloud_vbo(
        [self EXCEPT !.point_cloud = [points |-> CentredRows(points),
                                      colors |-> colors,
                                      center |-> CenterOf(points)]],
        CentredRows(points), colors)

\* a[index] for every index of the flattened triangles; None when an index
\* is out of bounds (IndexError).
Gather(a, triangles) ==
    LET flat == [n \in 1..(3 * Len0(triangles)) |->
                    triangles.data[((n - 1) \div 3) + 1][((n - 1) % 3) + 1]]
    IN  IF \E n \in DOMAIN flat : flat[n] >= Len0(a) THEN None
        ELSE Array2([n \in DOMAIN flat |-> a.data[flat[n] + 1]], 3)

\* OpenGLRenderer.update_mesh_vbo(vertices, triangles, colors)
update_mesh_vbo(self, vertices, triangles, colors) ==
    LET cleared == [self EXCEPT !.vbo_mesh = None, !.vao_mesh = None]
    IN  IF Len0(vertices) = 0 \/ Len0(triangles) = 0
        THEN Completed([cleared EXCEPT !.n_mesh_indices = 0])
        ELSE IF Gather(vertices, triangles) = None \/ Gather(colors, triangles) = None
        THEN Failed(cleared, "IndexError")
        ELSE Completed([cleared EXCEPT
                      !.n_mesh_indices = Len0(Gather(vertices, triangles)),
                      !.vao_mesh = Created,
                      !.vbo_mesh = Buffer(HStack(Gather(vertices, triangles),
                                                 Gather(colors, triangles)))])

\* OpenGLRenderer.set_mesh(vertices, triangles, colors=None)
OpenGLRenderer_set_mesh(self, vertices, triangles, colors) ==
    LET shown == IF colors = None THEN UniformGray(vertices) ELSE colors
    IN  update_mesh_vbo(
            [self EXCEPT !.mesh = [vertices |-> CentredRows(vertices),
                                   triangles |-> triangles,
                                   colors |-> shown,
                                   center |-> CenterOf(vertices)]],
            CentredRows(vertices), triangles, shown)

\* The six vertices of a camera's marker: the camera centre -R.T @ t and
\* the end of each axis, R[:, a] * 0.1 from the centre.
CameraAxes(E) ==
    LET center == [j \in 1..3 |->
                      Dot([k \in 1..3 |-> -E.data[k][j]], [k \in 1..3 |-> E.data[k][4]])]
        end(a) == [j \in 1..3 |-> FAdd(center[j], FMul(E.data[j][a], Literal(1, 10)))]
    IN  <<center, end(1), center, end(2), center, end(3)>>

RECURSIVE Concat(_)
Concat(seqs) == IF seqs = <<>> THEN <<>> ELSE Head(seqs) \o Concat(Tail(seqs))

\* OpenGLRenderer.update_cameras_vbo(extrinsics)
update_cameras_vbo(self, extrinsics) ==
    LET cleared == [self EXCEPT !.vbo_cameras = None, !.vao_cameras = None]
    IN  IF extrinsics = None \/ Len(extrinsics) = 0
        THEN Completed([cleared EXCEPT !.n_camera_vertices = 0])
        ELSE IF \E i \in DOMAIN extrinsics :
                   extrinsics[i].shape[1] < 3 \/ extrinsics[i].shape[2] < 4
        THEN Failed(cleared, "IndexError")
        ELSE LET vertices == Concat([i \in DOMAIN extrinsics |-> CameraAxes(extrinsics[i])])
             IN  Completed([cleared EXCEPT !.n_camera_vertices = Len(vertices),
                                      !.vao_cameras = Created,
                                      !.vbo_cameras = Buffer(vertices)])

\* OpenGLRenderer.set_camera_poses(extrinsics)
OpenGLRenderer_set_camera_poses(self, extrinsics) ==
    update_cameras_vbo([self EXCEPT !.camera_poses = extrinsics], extrinsics)

\* reset_view that leaves the zoom as it is.
reset_view_keeping_zoom(self) ==
    [f \in DOMAIN self |->
        IF f \in ViewFields \ {"camera_distance"} THEN InitialView[f] ELSE self[f]]

\* OpenGLRenderer.reset_view()
reset_view(self) ==
    [f \in DOMAIN self |-> IF f \in ViewFields THEN InitialView[f] ELSE self[f]]

\* OpenGLRenderer.clear_scene()
clear_scene(self) ==
    [reset_view(self) EXCEPT
        !.point_cloud = None, !.mesh = None, !.camera_poses = None,
        !.vbo_point = None, !.vao_point = None,
        !.vbo_mesh = None, !.vao_mesh = None,
        !.vbo_cameras = None, !.vao_cameras = None,
        !.n_points = 0, !.n_mesh_indices = 0, !.n_camera_vertices = 0]

\* wheelEvent without the clamp.
wheelEventUnclamped(self, delta) ==
    [self EXCEPT !.camera_distance = @ + ZoomStep(delta)]

\* OpenGLRenderer.wheelEvent(event): delta = event.angleDelta().y();
\* camera_distance += delta * zoom_sensitivity * -0.1, then
\* camera_distance = max(0.1, min(camera_distance, 50.0))
wheelEvent(self, delta) ==
    LET moved == self.camera_distance + ZoomStep(delta)
        below == IF moved < MaxDistance THEN moved ELSE MaxDistance
    IN  [self EXCEPT !.camera_distance =
            IF MinDistance > below THEN MinDistance ELSE below]

\* OpenGLRenderer.mousePressEvent(event)
mousePressEvent(self, pos) == [self EXCEPT !.last_mouse_pos = pos]

\* OpenGLRenderer.mouseMoveEvent(event): nothing without a pressed position
\* or for a move below one pixel; the left button turns the view, the right
\* button shifts it.
mouseMoveEvent(self, pos, button) ==
    IF self.last_mouse_pos = None THEN self
    ELSE LET dx == pos[1] - self.last_mouse_pos[1]
             dy == pos[2] - self.last_mouse_pos[2]
         IN  IF Abs(dx) < 1 /\ Abs(dy) < 1 THEN self
             ELSE IF button = "left"
             THEN [self EXCEPT
                      !.camera_rotation_x = @ + dy * RotationSensitivity,
                      !.camera_rotation_y = @ + dx * RotationSensitivity,
                      !.last_mouse_pos = pos]
             ELSE IF button = "right"
             THEN [self EXCEPT
                      !.camera_translation =
                          <<@[1] + dx * TranslationSensitivity,
                            @[2] - dy * TranslationSensitivity, @[3]>>,
                      !.last_mouse_pos = pos]
             ELSE [self EXCEPT !.last_mouse_pos = pos]

---------------------------------------------------------------------------
(* gui.MainWindow: the handlers that put a scene into the renderer.  A     *)
(* handler is given the renderer's fields and what the user chose and      *)
(* gives the fields as it leaves them and what it logged.                  *)

\* What the except clause of a handler logs: logger.error(text)
Handled(self, text, exc) ==
    [self |-> self, log |-> <<LogRecord("error", text, exc)>>]

\* A handler that returned without an exception.
Quiet(self) == [self |-> self, log |-> <<>>]

\* The buttons of the question of load_reconstruction_data.
Choices == {"Yes", "No", "Cancel"}

\* MainWindow.load_point_cloud(), for the file the user picked
MainWindow_load_point_cloud(self, pcd) ==
    IF pcd = NoFile \/ ~HasPoints(pcd) THEN Quiet(self)
    ELSE LET colors == IF HasColors(pcd) THEN pcd.colors ELSE UniformGray(pcd.points)
             shown == OpenGLRenderer_set_point_cloud(self, pcd.points, colors)
         IN  IF shown.raised # None
             THEN Handled(shown.self, "loading point cloud failed", shown.raised.exc)
             ELSE Quiet(reset_view(shown.self))

\* MainWindow.load_mesh(), for the file the user picked
MainWindow_load_mesh(self, mesh) ==
    IF mesh = NoFile \/ ~HasVertices(mesh) THEN Quiet(self)
    ELSE LET colors == IF HasVertexColors(mesh) THEN mesh.vertex_colors
                       ELSE UniformGray(mesh.vertices)
             shown == OpenGLRenderer_set_mesh(self, mesh.vertices, mesh.triangles, colors)
         IN  IF shown.raised # None
             THEN Handled(shown.self, "loading mesh failed", shown.raised.exc)
             ELSE Quiet(reset_view(shown.self))

\* The branch of load_reconstruction_data that shows the point cloud and
\* the camera poses.
ShowPointCloud(self, data) ==
    LET extrinsics == [i \in DOMAIN data.images |-> data.images[i].extrinsic]
        cloud == OpenGLRenderer_set_point_cloud(self, data.points, data.colors)
        cameras == OpenGLRenderer_set_camera_poses(cloud.self, extrinsics)
    IN  IF cloud.raised # None
        THEN Handled(cloud.self, "loading reconstruction data failed", cloud.raised.exc)
        ELSE IF cameras.raised # None
        THEN Handled(cameras.self, "loading reconstruction data failed",
                     cameras.raised.exc)
        ELSE Quiet(reset_view(cameras.self))

\* The branch of load_reconstruction_data that shows the mesh; the status
\* line takes len(triangles), a TypeError when the file has no triangles.
ShowMesh(self, data) ==
    LET shown == OpenGLRenderer_set_mesh(self, data.vertices, data.triangles,
                                         data.vertex_colors)
    IN  IF shown.raised # None
        THEN Handled(shown.self, "loading reconstruction data failed", shown.raised.exc)
        ELSE IF data.triangles = None
        THEN Handled(reset_view(shown.self), "loading reconstruction data failed",
                     "TypeError")
        ELSE Quiet(reset_view(shown.self))

\* MainWindow.load_reconstruction_data(), for the file the user picked and
\* the button pressed in the question
MainWindow_load_reconstruction_data(self, file, choice) ==
    LET loaded == load_colmap_data(file)
    IN  IF loaded.status # "returned"
        THEN [self |-> self,
              log |-> LoggedBy("loading COLMAP data failed", loaded)
                      \o <<LogRecord("error", "loading reconstruction data failed",
                                     loaded.exc)>>]
        ELSE IF choice = "Cancel" THEN Quiet(self)
        ELSE IF choice = "Yes" /\ Size(loaded.value.points) > 0
        THEN ShowPointCloud(self, loaded.value)
        ELSE IF choice = "No" /\ loaded.value.vertices # None
        THEN ShowMesh(self, loaded.value)
        ELSE Quiet(self)

\* The workspaces with a fused cloud and a sparse model that can be read.
SceneWorkspaces ==
    {w \in Workspaces :
        /\ w.fused # NoFile
        /\ w.sparse = [m \in {0} |-> SparseModel(Only(ProjCameras))]
        /\ Len(w.results_path) = 2}

\* The files the window is given: what either exporter writes for a
\* workspace, and the files of a session with the same cameras.
SceneFiles ==
    {save_reconstruction_data(w).file : w \in SceneWorkspaces}
    \cup {task1_save_reconstruction_data(w).file : w \in SceneWorkspaces}
    \cup {c \in SessionContainers :
             Item(c["cameras"])[1] = Only(ProjCameras)}

InitScene ==
    /\ pc = "window"
    /\ renderer = NewRenderer
    /\ heap = None /\ outputs = None /\ resolved = None
    /\ LoaderIdle
    /\ ThreadsIdle
    /\ NoLog
    /\ camera_info = None /\ points3d = None /\ extrinsic = None
    /\ intrinsic = None /\ projection = None

\* A handler ran: the renderer is as it left it, and what it logged is in
\* the log.
Ran(handler) ==
    /\ Len(log) + Len(handler.log) <= MaxLog
    /\ renderer' = handler.self
    /\ log' = log \o handler.log
    /\ UNCHANGED <<pc, coreVars, loaderVars, heap, outputs, resolved, frames>>

LoadPointCloudFile ==
    \E pcd \in FusedClouds :
        \E handler \in {MainWindow_load_point_cloud(renderer, pcd)} : Ran(handler)

LoadMeshFile ==
    \E mesh \in PoissonMeshes :
        \E handler \in {MainWindow_load_mesh(renderer, mesh)} : Ran(handler)

LoadReconstructionDataFrom(files) ==
    \E file \in files, choice \in Choices :
        \E handler \in {MainWindow_load_reconstruction_data(renderer, file, choice)} :
            Ran(handler)

LoadReconstructionData == LoadReconstructionDataFrom(SceneFiles)

\* MainWindow.clear_view()
ClearView == Ran(Quiet(clear_scene(renderer)))

\* The reset button: OpenGLRenderer.reset_view()
ResetView == Ran(Quiet(reset_view(renderer)))

NextScene ==
    \/ LoadPointCloudFile
    \/ LoadMeshFile
    \/ LoadReconstructionData
    \/ ClearView
    \/ ResetView

SpecScene == InitScene /\ [][NextScene]_vars

\* The camera centre of an extrinsic matrix: -R.T @ t
CameraCenter(E) ==
    [j \in 1..3 |->
        Dot([k \in 1..3 |-> -E.data[k][j]], [k \in 1..3 |-> E.data[k][4]])]

\* A point cloud is drawn together with camera markers.
CloudWithCameras ==
    /\ pc = "window"
    /\ renderer.point_cloud # None /\ renderer.vbo_point # None
    /\ renderer.camera_poses # None /\ renderer.vbo_cameras # None

\* C26: when a point cloud is shown together with camera poses, the marker
\* of each camera is drawn at the camera's centre moved by the translation
\* that was applied to the points (the centroid subtracted), so that the
\* cameras keep their place relative to the cloud.
C26_CamerasInTheFrameOfThePoints ==
    CloudWithCameras =>
        \A i \in DOMAIN renderer.camera_poses :
            renderer.vbo_cameras.buffer[6 * (i - 1) + 1]
                = [j \in 1..3 |->
                      FAdd(CameraCenter(renderer.camera_poses[i])[j],
                           -renderer.point_cloud.center.data[j])]

\* The number of stored points, poses and triangles.
StoredPoints ==
    IF renderer.point_cloud = None THEN 0 ELSE Len0(renderer.point_cloud.points)

StoredPoses ==
    IF renderer.camera_poses = None THEN 0 ELSE Len(renderer.camera_poses)

StoredTriangles ==
    IF renderer.mesh = None THEN 0 ELSE Len0(renderer.mesh.triangles)

\* C27: the draw counters agree with the stored scene after every call,
\* failed calls included: n_points is the number of stored points,
\* n_camera_vertices six times the number of stored poses, n_mesh_indices
\* three times the number of stored triangles, and a counter is positive
\* only while its vertex-array object exists.
C27_CountersAgreeWithScene ==
    pc = "window" =>
        /\ renderer.n_points = StoredPoints
        /\ renderer.n_camera_vertices = 6 * StoredPoses
        /\ renderer.n_mesh_indices = 3 * StoredTriangles
        /\ renderer.n_points > 0 => renderer.vao_point # None
        /\ renderer.n_camera_vertices > 0 => renderer.vao_cameras # None
        /\ renderer.n_mesh_indices > 0 => renderer.vao_mesh # None

---------------------------------------------------------------------------
(* The view of the window: wheel and mouse events, the reset button and    *)
(* the clear button on a window that shows a file.  pc names the method    *)
(* that ran last and, for reset_view and clear_scene, holds the renderer   *)
(* as it was before the call.                                              *)

\* The wheel turns far in either direction: both ends of the clamp are met.
WheelDeltas == {-2400, 2400}

\* Where the mouse is pressed and moved to.
MousePositions == {<<0, 0>>, <<1, 1>>}

MouseButtons == {"left", "right", "middle"}

\* The file shown in the window: the export of a workspace with a coloured
\* cloud and a mesh.
ViewFiles ==
    {task1_save_reconstruction_data(w).file :
        w \in {v \in SceneWorkspaces :
                  /\ HasColors(v.fused)
                  /\ v.meshed # NoFile /\ HasTriangles(v.meshed)
                  /\ ~HasVertexColors(v.meshed)}}

\* The view stays within MaxDrag pixels of the initial one.
WithinDrag(self) ==
    /\ Abs(self.camera_rotation_x) <= MaxDrag * RotationSensitivity
    /\ Abs(self.camera_rotation_y) <= MaxDrag * RotationSensitivity
    /\ Abs(self.camera_translation[1]) <= MaxDrag * TranslationSensitivity
    /\ Abs(self.camera_translation[2]) <= MaxDrag * TranslationSensitivity

\* The method ran and left the renderer as self.
Called(method, before, self) ==
    /\ pc' = [last |-> method, before |-> before]
    /\ renderer' = self
    /\ UNCHANGED <<coreVars, loaderVars, heap, outputs, resolved, frames, log>>

InitView ==
    /\ pc = [last |-> "__init__", before |-> None]
    /\ renderer = NewRenderer
    /\ heap = None /\ outputs = None /\ resolved = None
    /\ LoaderIdle
    /\ ThreadsIdle
    /\ NoLog
    /\ camera_info = None /\ points3d = None /\ extrinsic = None
    /\ intrinsic = None /\ projection = None

ShowFile ==
    \E file \in ViewFiles, choice \in Choices :
        \E handler \in {MainWindow_load_reconstruction_data(renderer, file, choice)} :
            /\ handler.log = <<>>
            /\ Called("load_reconstruction_data", None, handler.self)

WheelEvent ==
    \E delta \in WheelDeltas : Called("wheelEvent", None, wheelEvent(renderer, delta))

MousePressEvent ==
    \E pos \in MousePositions :
        Called("mousePressEvent", None, mousePressEvent(renderer, pos))

MouseMoveEvent ==
    \E pos \in MousePositions, button \in MouseButtons :
        \E self \in {mouseMoveEvent(renderer, pos, button)} :
            /\ WithinDrag(self)
            /\ Called("mouseMoveEvent", None, self)

ResetViewButton == Called("reset_view", renderer, reset_view(renderer))

ClearViewButton == Called("clear_scene", renderer, clear_scene(renderer))

NextView ==
    \/ ShowFile
    \/ WheelEvent
    \/ MousePressEvent
    \/ MouseMoveEvent
    \/ ResetViewButton
    \/ ClearViewButton

SpecView == InitView /\ [][NextView]_vars

SceneFields ==
    {"point_cloud", "mesh", "camera_poses",
     "vao_point", "vbo_point", "vao_mesh", "vbo_mesh", "vao_cameras", "vbo_cameras",
     "n_points", "n_mesh_indices", "n_camera_vertices"}

\* C28: after clear_scene the scene objects and all six handles are None,
\* the three counters are 0 and the view has its initial values, whatever
\* was loaded before; after reset_view the view has the same initial values
\* and the scene objects, handles and counters are as they were.
C28_ClearAndResetFrame ==
    /\ pc.last = "clear_scene" =>
          /\ \A f \in SceneFields \ {"n_points", "n_mesh_indices", "n_camera_vertices"} :
                renderer[f] = None
          /\ renderer.n_points = 0
          /\ renderer.n_mesh_indices = 0
          /\ renderer.n_camera_vertices = 0
          /\ \A f \in ViewFields : renderer[f] = InitialView[f]
    /\ pc.last = "reset_view" =>
          /\ \A f \in ViewFields : renderer[f] = InitialView[f]
          /\ \A f \in SceneFields : renderer[f] = pc.before[f]

\* clear_scene ran on a window that showed a cloud, its cameras and a mesh
\* in a view that had been zoomed, turned and shifted.
C28_Witness ==
    /\ pc.last = "clear_scene"
    /\ pc.before.n_points > 0
    /\ pc.before.n_mesh_indices > 0
    /\ pc.before.n_camera_vertices > 0
    /\ pc.before.camera_distance # InitialDistance
    /\ pc.before.camera_rotation_x # 0
    /\ pc.before.camera_translation # <<0, 0, 0>>
    /\ renderer.point_cloud = None

\* C29: camera_distance is within [0.1, 50.0] in every state of the window.
C29_DistanceWithinClamp ==
    /\ MinDistance <= renderer.camera_distance
    /\ renderer.camera_distance <= MaxDistance

\* A wheel event was held at an end of the range.
C29_Witness ==
    /\ pc.last = "wheelEvent"
    /\ renderer.camera_distance \in {MinDistance, MaxDistance}
    /\ renderer.last_mouse_pos # None

---------------------------------------------------------------------------
(* task2_gui: the window that opens each file in an Open3D viewer of its   *)
(* own.  A viewer runs in a VisualizationThread; its finished signal is    *)
(* delivered to the window's thread through the event queue, so that a     *)
(* handler of the window runs between other handlers and never inside one. *)
(* Threads are numbered in the order of their creation.                    *)

\* VisualizationThread.__init__ and start(): the thread is about to run.
NewThread(geometry) ==
    [geometry |-> geometry, at |-> "started", raised |-> FALSE, emitted |-> 0]

\* thread.isRunning()
IsRunning(thread) == thread.at \in {"started", "viewing", "emitting"}

\* self.visualization_threads.remove(thread) taken as the removal of the
\* first thread of the list.
RemoveFirst(list, t) == Tail(list)

\* self.visualization_threads.remove(thread)
Remove(list, t) == SelectSeq(list, LAMBDA u : u # t)

\* MainWindow.on_visualization_finished(thread)
on_visualization_finished(w, t) ==
    IF \E i \in DOMAIN w.visualization_threads : w.visualization_threads[i] = t
    THEN [w EXCEPT !.visualization_threads = Remove(@, t),
                   !.status = "viewer closed"]
    ELSE w

\* The body of load_point_cloud and of load_mesh after the file is read:
\* a thread is made for the geometry, connected, started and appended.
StartViewer(w, geometry) ==
    [w EXCEPT !.threads = Append(@, NewThread(geometry)),
              !.visualization_threads = Append(@, Len(w.threads) + 1),
              !.status = "loaded"]

\* MainWindow.closeEvent(event): every thread of the list that is running
\* is terminated; the list is left as it is.
closeEvent(w) ==
    [w EXCEPT !.open = FALSE,
              !.threads =
                  [t \in DOMAIN w.threads |->
                      IF /\ \E i \in DOMAIN w.visualization_threads :
                               w.visualization_threads[i] = t
                         /\ IsRunning(w.threads[t])
                      THEN [w.threads[t] EXCEPT !.at = "terminated"]
                      ELSE w.threads[t]]]

InitWindow ==
    /\ pc = "task2_gui"
    /\ window = [open |-> TRUE, status |-> "ready", visualization_threads |-> <<>>,
                 threads |-> <<>>, queue |-> <<>>, handled |-> {}]
    /\ disk = None /\ colmap = None /\ export = None
    /\ container = None /\ dataset = None /\ pipeline = None
    /\ SessionIdle
    /\ ThreadsIdle
    /\ NoLog
    /\ camera_info = None /\ points3d = None /\ extrinsic = None
    /\ intrinsic = None /\ projection = None

windowFrame ==
    <<pc, coreVars, container, dataset, pipeline, disk, colmap, export,
      sessionVars, frames, log>>

\* MainWindow.load_point_cloud(), for the file the user picked
Task2LoadPointCloud ==
    /\ window.open
    /\ \E pcd \in FusedClouds :
          IF pcd = NoFile \/ ~HasPoints(pcd)
          THEN window' = [window EXCEPT !.status = "cannot load point cloud"]
          ELSE /\ Len(window.threads) < NThreads
               /\ window' = StartViewer(window, "point cloud")
    /\ UNCHANGED windowFrame

\* MainWindow.load_mesh(), for the file the user picked
Task2LoadMesh ==
    /\ window.open
    /\ \E mesh \in PoissonMeshes :
          IF mesh = NoFile \/ ~HasVertices(mesh)
          THEN window' = [window EXCEPT !.status = "cannot load mesh"]
          ELSE /\ Len(window.threads) < NThreads
               /\ window' = StartViewer(window, "mesh")
    /\ UNCHANGED windowFrame

\* VisualizationThread.run: create_window and add_geometry, which may
\* raise.
CreateViewer ==
    /\ window.open
    /\ \E t \in DOMAIN window.threads, raises \in BOOLEAN :
          /\ window.threads[t].at = "started"
          /\ window' = [window EXCEPT
                           !.threads[t].at = IF raises THEN "emitting" ELSE "viewing",
                           !.threads[t].raised = raises]
    /\ UNCHANGED windowFrame

\* VisualizationThread.run: vis.run() returns when the user closes the
\* viewer, or raises; destroy_window.
ViewerCloses ==
    /\ window.open
    /\ \E t \in DOMAIN window.threads, raises \in BOOLEAN :
          /\ window.threads[t].at = "viewing"
          /\ window' = [window EXCEPT !.threads[t].at = "emitting",
                                      !.threads[t].raised = raises]
    /\ UNCHANGED windowFrame

\* VisualizationThread.run: finally, self.finished.emit(); the call of the
\* connected lambda is queued for the window's thread.
EmitFinished ==
    /\ window.open
    /\ \E t \in DOMAIN window.threads :
          /\ window.threads[t].at = "emitting"
          /\ window' = [window EXCEPT !.threads[t].at = "done",
                                      !.threads[t].emitted = @ + 1,
                                      !.queue = Append(@, t)]
    /\ UNCHANGED windowFrame

\* The event loop delivers a finished signal: the lambda connected in the
\* load calls on_visualization_finished with the thread of that load.
OnVisualizationFinished ==
    /\ window.open
    /\ window.queue # <<>>
    /\ \E t \in {Head(window.queue)} :
          window' = [on_visualization_finished(window, t) EXCEPT
                        !.queue = Tail(window.queue),
                        !.handled = @ \cup {t}]
    /\ UNCHANGED windowFrame

\* The user closes the main window; the application ends.
CloseEvent ==
    /\ window.open
    /\ window' = closeEvent(window)
    /\ UNCHANGED windowFrame

NextWindow ==
    \/ Task2LoadPointCloud
    \/ Task2LoadMesh
    \/ CreateViewer
    \/ ViewerCloses
    \/ EmitFinished
    \/ OnVisualizationFinished
    \/ CloseEvent

SpecWindow == InitWindow /\ [][NextWindow]_vars

\* The threads of the list, and the started threads whose finished signal
\* has not been handled.
Listed == {window.visualization_threads[i] : i \in DOMAIN window.visualization_threads}

Unhandled == DOMAIN window.threads \ window.handled

\* The viewer of every thread has closed: its run has left vis.run() or
\* the thread was terminated with the application.
EveryViewerClosed ==
    /\ window.threads # <<>>
    /\ \A t \in DOMAIN window.threads :
          window.threads[t].at \in {"emitting", "done", "terminated"}

\* The list holds each started thread with an unhandled signal once, and a
\* run that has ended has emitted finished once, raised or not.
ListIsUnhandled ==
    /\ Listed = Unhandled
    /\ Len(window.visualization_threads) = Cardinality(Listed)
    /\ \A t \in DOMAIN window.threads :
          /\ window.threads[t].emitted <= 1
          /\ window.threads[t].at = "done" => window.threads[t].emitted = 1

\* C30 as stated: visualization_threads holds exactly the started threads
\* whose finished signal has not been handled, each once; a run emits
\* finished exactly once whether or not the viewer raised; and once every
\* viewer window has closed the list is empty.
C30_Original ==
    /\ ListIsUnhandled
    /\ EveryViewerClosed => window.visualization_threads = <<>>

\* C30: visualization_threads holds exactly the started threads whose
\* finished signal has not been handled, each once; a run that ends emits
\* finished exactly once whether or not the viewer raised; and the list is
\* empty once every viewer has closed, no thread was terminated by
\* closeEvent and every finished signal has been delivered.
C30_ListHoldsUnhandledThreads ==
    /\ ListIsUnhandled
    /\ ( /\ EveryViewerClosed
         /\ window.queue = <<>>
         /\ \A t \in DOMAIN window.threads : window.threads[t].at = "done" )
       => window.visualization_threads = <<>>

\* Two viewers were open together; the second, whose viewer raised, was
\* handled first and the list went empty after the first was handled too.
C30_Witness ==
    /\ pc = "task2_gui"
    /\ Len(window.threads) >= 2
    /\ \A t \in DOMAIN window.threads : window.threads[t].at = "done"
    /\ window.threads[2].raised /\ ~window.threads[1].raised
    /\ window.handled = DOMAIN window.threads
    /\ window.visualization_threads = <<>>
    /\ window.open

====
